---------------------------- MODULE Spec2Model ----------------------------
(***************************************************************************)
(* Request lifecycle of the API-Labs front ends.                           *)
(*                                                                         *)
(* Every lab is a page of its own with one form: the NASA image search     *)
(* (src/unnamed/part_000), the geo search (src/Lab3/script.js), the        *)
(* weather forecast (src/Lab5/app.js, first closure), the MeaningCloud     *)
(* text analysis (src/Lab5/app.js, second closure) and the Twinword text   *)
(* analysis (src/unnamed/part_001).  A behaviour of Spec is the life of    *)
(* one page: Init picks the page, and only that page's handlers run, one   *)
(* event-loop task (with the microtasks it queues) per step.  The weather  *)
(* page can be loaded again, over what it has stored.  A behaviour of      *)
(* SpecCalls is one call of one of the pages' pure functions: InitCalls    *)
(* draws the function and its arguments into call, and the step applies    *)
(* the function.                                                           *)
(*                                                                         *)
(* Text is a sequence of one-character strings, so that trim, parseInt and *)
(* String are computed as JavaScript computes them.                        *)
(***************************************************************************)
EXTENDS Integers, Sequences, FiniteSets, TLC

VARIABLES lab, nasa, geo, weather, analysis, call

vars == <<lab, nasa, geo, weather, analysis, call>>

Labs == {"nasa", "geo", "weather", "meaningcloud", "twinword"}

AnalysisLabs == {"meaningcloud", "twinword"}

\* Number of valid submissions followed on one page.
MaxSubmits == 2

\* Largest number of items in a NASA payload.
MaxItems == 2

---------------------------------------------------------------------------
(* Text *)

Digits == <<"0", "1", "2", "3", "4", "5", "6", "7", "8", "9">>

IsSpace(c) == c = " "

IsDigit(c) == \E i \in 1..10 : Digits[i] = c

DigitValue(c) == (CHOOSE i \in 1..10 : Digits[i] = c) - 1

RECURSIVE TrimStart(_)
TrimStart(s) ==
  IF s # <<>> /\ IsSpace(Head(s)) THEN TrimStart(Tail(s)) ELSE s

RECURSIVE TrimEnd(_)
TrimEnd(s) ==
  IF s # <<>> /\ IsSpace(s[Len(s)]) THEN TrimEnd(SubSeq(s, 1, Len(s) - 1)) ELSE s

\* A trim that leaves the text as typed.
trim_Identity(s) == s

\* String.prototype.trim
trim(s) == TrimEnd(TrimStart(s))

\* The value of the longest prefix of digits of s, read after the digits
\* already read (acc); n counts the digits read.
RECURSIVE ReadDigits(_, _, _)
ReadDigits(s, acc, n) ==
  IF s # <<>> /\ IsDigit(Head(s))
    THEN ReadDigits(Tail(s), 10 * acc + DigitValue(Head(s)), n + 1)
    ELSE [value |-> acc, digits |-> n]

\* parseInt(text, 10): leading white space and one sign are skipped, the
\* digits that follow are read and the rest is ignored; NaN without a digit.
parseInt(text) ==
  LET s == TrimStart(text)
      signed == s # <<>> /\ Head(s) \in {"-", "+"}
      r == ReadDigits(IF signed THEN Tail(s) ELSE s, 0, 0)
  IN  IF r.digits = 0 THEN [isNaN |-> TRUE, value |-> 0]
      ELSE [isNaN |-> FALSE,
            value |-> IF signed /\ Head(s) = "-" THEN 0 - r.value ELSE r.value]

RECURSIVE NatToString(_)
NatToString(n) ==
  IF n < 10 THEN <<Digits[n + 1]>>
  ELSE NatToString(n \div 10) \o <<Digits[(n % 10) + 1]>>

\* String(number) of an integer
String(n) == IF n < 0 THEN <<"-">> \o NatToString(0 - n) ELSE NatToString(n)

Min(a, b) == IF a <= b THEN a ELSE b

\* How a fetch settles: it rejects (the network failed), or it resolves
\* with a response that is ok (2xx) or is not.
FetchOutcomes == {"network", "http", "ok"}

\* A check that takes every response for ok.
responseOk_Always(outcome) == TRUE

\* response.ok
responseOk(outcome) == outcome = "ok"

\* The text of a status element: what it says and the number it quotes.
Msg(kind, n) == [kind |-> kind, n |-> n]

---------------------------------------------------------------------------
(* NASA image search: src/unnamed/part_000 *)

MAX_RESULTS == 40

YearMin == 1920

YearMax == 2100

\* total_hits of a payload whose metadata counts more than its page holds.
TotalHitsBeyond == 7

NasaQueries == { <<>>, <<" ">>, <<" ", "m">> }

NasaMediaTypes == {"all", "image"}

NasaYears ==
  { <<>>, <<" ">>,
    <<"1", "8", "5", "0">>, <<"1", "9", "1", "9">>, <<"1", "9", "2", "0">>,
    <<"2", "0", "2", "0">>, <<"2", "1", "0", "0">>, <<"2", "1", "0", "1">>,
    <<"a">>, <<"2", "0", "2", "0", "a">>, <<" ", "2", "0", "2", "0">>,
    <<"0", "2", "0", "2", "0">> }

\* What response.json() gives: a SyntaxError, or a payload with its items
\* and the total its metadata states (items.length without metadata).
NasaPayloads ==
  { [valid |-> FALSE, items |-> 0, total |-> 0] } \cup
  UNION { { [valid |-> TRUE, items |-> n, total |-> t] : t \in {n, TotalHitsBeyond} } :
          n \in 0..MaxItems }

NasaInitialStatus == Msg("", 0)
NasaEnterQuery    == Msg("enter a search query", 0)           \* line 172
NasaBadYear       == Msg("enter a year in 1920-2100", 0)      \* line 180
NasaLoading       == Msg("loading", 0)                        \* line 193
NasaNothingFound  == Msg("nothing found", 0)                  \* line 211
NasaFailed        == Msg("request failed", 0)                 \* line 160
NasaFound(total)  == Msg("results found", total)              \* line 215

\* The year check accepting everything parseInt reads.
YearRejected_NoRange(parsedYear) == parsedYear.isNaN

YearRejected(parsedYear) ==
  parsedYear.isNaN \/ parsedYear.value < YearMin \/ parsedYear.value > YearMax

\* A query that carries the year as year_start only.
buildQuery_StartOnly(query, mediaType, year) ==
  LET base == [q |-> query, page |-> <<"1">>,
               media_type |-> IF mediaType = "all" THEN "image,video" ELSE mediaType]
  IN  IF year # <<>>
        THEN [q |-> base.q, page |-> base.page, media_type |-> base.media_type,
              year_start |-> year]
        ELSE base

\* The parameters of the request URL.
buildQuery(query, mediaType, year) ==
  LET base == [q |-> query, page |-> <<"1">>,
               media_type |-> IF mediaType = "all" THEN "image,video" ELSE mediaType]
  IN  IF year # <<>>
        THEN [q |-> base.q, page |-> base.page, media_type |-> base.media_type,
              year_start |-> year, year_end |-> year]
        ELSE base

\* A submission that leaves the previous request running.
abort_Nothing(requests, controller) == requests

\* activeController.abort(): the controller's request, when still running,
\* is cancelled; its promise rejects with an AbortError.
abort(requests, controller) ==
  IF controller # 0 /\ requests[controller].st \in {"fetch", "body"}
    THEN [requests EXCEPT ![controller].aborted = TRUE]
    ELSE requests

\* A submission that keeps the cards already shown.
clearResults_Keep(container) == container

clearResults(container) == <<>>

\* An error handler that reports every error.
handleError_ReportAll(name, status) == NasaFailed

\* handleError: the status text after an error of that name.
handleError(name, status) ==
  IF name = "AbortError" THEN status ELSE NasaFailed

\* renderItems(items.slice(0, MAX_RESULTS)) for the items of request id.
renderItems(container, id, items) ==
  Append(container, [request |-> id, cards |-> Min(items, MAX_RESULTS)])

\* A request the page has issued and the handler still awaits.
NasaLive(r) == r.st \in {"fetch", "body"} /\ ~r.aborted

\* handleSubmit up to its first await, on the fields as they are typed.
nasaHandleSubmit(s) ==
  LET query == trim(s.searchInput)
      mediaType == s.mediaTypeSelect
      rawYear == trim(s.yearInput)
      parsedYear == parseInt(rawYear)
      year == IF rawYear # <<>> THEN String(parsedYear.value) ELSE <<>>
      id == Len(s.requests) + 1
  IN  IF query = <<>> THEN [s EXCEPT !.statusElement = NasaEnterQuery]
      ELSE IF rawYear # <<>> /\ YearRejected(parsedYear)
        THEN [s EXCEPT !.statusElement = NasaBadYear]
      ELSE [s EXCEPT
              !.requests = Append(abort(s.requests, s.activeController),
                                  [st |-> "fetch", aborted |-> FALSE,
                                   url |-> buildQuery(query, mediaType, year)]),
              !.activeController = id,
              !.statusElement = NasaLoading,
              !.resultsContainer = clearResults(s.resultsContainer)]

\* Whether the fields pass handleSubmit's validation.
NasaValid(s) ==
  /\ trim(s.searchInput) # <<>>
  /\ trim(s.yearInput) # <<>> => ~YearRejected(parseInt(trim(s.yearInput)))

\* The user types a query and submits the form.  The media type and the
\* year are the ones the page was opened with (NasaInits).
NasaSubmit ==
  /\ lab = "nasa"
  /\ \E q \in NasaQueries :
       LET typed == [nasa EXCEPT !.searchInput = q]
       IN  /\ NasaValid(typed) => Len(nasa.requests) < MaxSubmits
           /\ nasa' = nasaHandleSubmit(typed)
  /\ UNCHANGED <<lab, geo, weather, analysis, call>>

\* fetch settles: a network failure, a response that is not ok (both end
\* in handleError), or an ok response whose body is then read.
NasaFetchSettlesWith(id, outcome) ==
  /\ lab = "nasa"
  /\ nasa.requests[id].st = "fetch"
  /\ ~nasa.requests[id].aborted
  /\ nasa' =
       IF responseOk(outcome)
         THEN [nasa EXCEPT !.requests[id].st = "body"]
         ELSE [nasa EXCEPT
                 !.requests[id].st = "settled",
                 !.statusElement =
                    handleError(IF outcome = "network" THEN "TypeError" ELSE "Error",
                                nasa.statusElement)]
  /\ UNCHANGED <<lab, geo, weather, analysis, call>>

NasaFetchSettles ==
  /\ lab = "nasa"
  /\ \E id \in 1..Len(nasa.requests), outcome \in FetchOutcomes : NasaFetchSettlesWith(id, outcome)

\* response.json() settles and the handler runs to its end.
NasaJsonSettlesWith(id, payload) ==
  /\ lab = "nasa"
  /\ nasa.requests[id].st = "body"
  /\ ~nasa.requests[id].aborted
  /\ nasa' =
       IF ~payload.valid
         THEN [nasa EXCEPT
                 !.requests[id].st = "settled",
                 !.statusElement = handleError("SyntaxError", nasa.statusElement)]
       ELSE IF payload.items = 0
         THEN [nasa EXCEPT
                 !.requests[id].st = "settled",
                 !.statusElement = NasaNothingFound]
       ELSE [nasa EXCEPT
               !.requests[id].st = "settled",
               !.statusElement = NasaFound(payload.total),
               !.resultsContainer =
                  renderItems(nasa.resultsContainer, id, payload.items)]
  /\ UNCHANGED <<lab, geo, weather, analysis, call>>

NasaJsonSettles ==
  /\ lab = "nasa"
  /\ \E id \in 1..Len(nasa.requests), payload \in NasaPayloads : NasaJsonSettlesWith(id, payload)

\* The promise of a cancelled request rejects with an AbortError, which
\* the handler's catch passes to handleError.
NasaAbortSettles ==
  /\ lab = "nasa"
  /\ \E id \in 1..Len(nasa.requests) :
       /\ nasa.requests[id].st \in {"fetch", "body"}
       /\ nasa.requests[id].aborted
       /\ nasa' = [nasa EXCEPT
                     !.requests[id].st = "settled",
                     !.statusElement = handleError("AbortError", nasa.statusElement)]
  /\ UNCHANGED <<lab, geo, weather, analysis, call>>

\* The page as loaded, with the media type and the year the visitor works
\* with already in their fields.
NasaInits ==
  { [searchInput |-> <<>>, mediaTypeSelect |-> m, yearInput |-> y,
     activeController |-> 0, requests |-> <<>>,
     statusElement |-> NasaInitialStatus, resultsContainer |-> <<>>] :
    m \in NasaMediaTypes, y \in NasaYears }

\* The value of a page's variable on the other pages.
NotLoaded == [loaded |-> FALSE]

\* The value of call while the pages run: no function is called on its own.
NoCall == [fn |-> "none"]

---------------------------------------------------------------------------
(* Geo search: src/Lab3/script.js *)

DEFAULT_RADIUS == 2000

GeoQueries == { <<>>, <<" ">>, <<"r", " ">> }

GeoRadii == { <<>>, <<"a">>, <<"0">>, <<"5", "0", "0">> }

\* Number(text) of a field: 0 for blank text, the value of a run of digits,
\* NaN for the rest.
Number(text) ==
  LET s == trim(text)
      r == ReadDigits(s, 0, 0)
  IN  IF s = <<>> THEN [isNaN |-> FALSE, value |-> 0]
      ELSE IF r.digits = Len(s) THEN [isNaN |-> FALSE, value |-> r.value]
      ELSE [isNaN |-> TRUE, value |-> 0]

\* Number(radiusField.value) || 2000
radiusOf(text) ==
  LET n == Number(text)
  IN  IF n.isNaN \/ n.value = 0 THEN DEFAULT_RADIUS ELSE n.value

\* What the geocoder's body decodes to: a SyntaxError, an empty array, or
\* an array whose first entry is the match.
GeocodePayloads ==
  { [valid |-> FALSE, matches |-> <<>>],
    [valid |-> TRUE, matches |-> <<>>],
    [valid |-> TRUE, matches |-> << [lat |-> 55, lon |-> 37] >>] }

\* Elements of an Overpass payload: a node carries lat and lon, a way its
\* center (hasCenter), and tags.name may be missing (name "").  Coordinates
\* are counted in tenths of the step to which a coordinate rounds.
GeoElements ==
  { [type |-> "node", name |-> "b", lat |-> 1, lon |-> 1, hasCenter |-> FALSE],
    [type |-> "node", name |-> "b", lat |-> 2, lon |-> 1, hasCenter |-> FALSE],
    [type |-> "node", name |-> "a", lat |-> 2, lon |-> 1, hasCenter |-> FALSE],
    [type |-> "way", name |-> "b", lat |-> 1, lon |-> 1, hasCenter |-> TRUE],
    [type |-> "way", name |-> "", lat |-> 3, lon |-> 3, hasCenter |-> FALSE] }

\* What the Overpass body decodes to: a SyntaxError, an object without
\* elements, or an object with them.
PlacesPayloads ==
  { [valid |-> FALSE, hasElements |-> FALSE, elements |-> <<>>],
    [valid |-> TRUE, hasElements |-> FALSE, elements |-> <<>>],
    [valid |-> TRUE, hasElements |-> TRUE, elements |-> <<>>] } \cup
  { [valid |-> TRUE, hasElements |-> TRUE, elements |-> <<e>>] : e \in GeoElements } \cup
  { [valid |-> TRUE, hasElements |-> TRUE, elements |-> <<e, f>>] :
      e \in GeoElements, f \in GeoElements }

\* status(message, tone)
GeoStatus(kind, n, tone) == [kind |-> kind, n |-> n, tone |-> tone]

GeoPrompt        == GeoStatus("enter an address and press search", 0, "info")  \* line 261
GeoEnterAddress  == GeoStatus("enter an address or a city", 0, "error")        \* line 219
GeoSeekCoords    == GeoStatus("looking for coordinates", 0, "info")            \* line 224
GeoNoAddress     == GeoStatus("address not found", 0, "error")                 \* line 230
GeoSeekPlaces    == GeoStatus("looking for places nearby", 0, "info")          \* line 241
GeoFoundPlaces(n) == GeoStatus("places found", n, "success")                   \* line 249
GeoNoPlaces      == GeoStatus("nothing in the radius", 0, "warning")           \* line 251
GeoFailed        == GeoStatus("loading failed", 0, "error")                    \* line 255

\* The place an element maps to: its coordinates, and the placeholder name
\* for an element without tags.name.
PlaceOf(e) ==
  [name |-> IF e.name = "" THEN "unnamed" ELSE e.name, lat |-> e.lat, lon |-> e.lon,
   type |-> e.type]

HasLatLng(e) == e.type = "node" \/ e.hasCenter

PlaceKey(p) == <<p.name, p.lat, p.lon>>

\* The map callback over the elements in payload order, with the keys seen.
RECURSIVE MapElements(_, _)
MapElements(elements, seen) ==
  IF elements = <<>> THEN <<>>
  ELSE LET e == Head(elements)
           p == PlaceOf(e)
       IN  IF ~HasLatLng(e) \/ PlaceKey(p) \in seen
             THEN MapElements(Tail(elements), seen)
             ELSE <<p>> \o MapElements(Tail(elements), seen \cup {PlaceKey(p)})

\* localeCompare on the names in use.
NameRank(name) == CASE name = "a" -> 1 [] name = "b" -> 2 [] OTHER -> 3

\* Array.prototype.sort by name: stable insertion.
RECURSIVE InsertPlace(_, _)
InsertPlace(sorted, p) ==
  IF sorted = <<>> THEN <<p>>
  ELSE IF NameRank(p.name) < NameRank(Head(sorted).name)
    THEN <<p>> \o sorted
    ELSE <<Head(sorted)>> \o InsertPlace(Tail(sorted), p)

RECURSIVE SortPlaces(_)
SortPlaces(places) ==
  IF places = <<>> THEN <<>>
  ELSE InsertPlace(SortPlaces(SubSeq(places, 1, Len(places) - 1)), places[Len(places)])

\* The places fetchPlaces returns for a decoded payload with elements.
placesOf(payload) == SortPlaces(MapElements(payload.elements, {}))

\* renderPlaces: the list items, one per place, or the one item that says
\* that nothing was found.
renderPlaces(places) ==
  IF places = <<>> THEN << [name |-> "nothing found", lat |-> 0, lon |-> 0] >>
  ELSE [i \in 1..Len(places) |->
          [name |-> places[i].name, lat |-> places[i].lat, lon |-> places[i].lon]]

\* An updateMarkers that marks the searched location alone.
updateMarkers_CenterOnly(coords, places) ==
  << [name |-> "searched location", lat |-> coords.lat, lon |-> coords.lon] >>

\* updateMarkers: the layer is cleared, then holds the marker of the
\* searched location and one marker per place.
updateMarkers(coords, places) ==
  << [name |-> "searched location", lat |-> coords.lat, lon |-> coords.lon] >> \o
  [i \in 1..Len(places) |->
     [name |-> places[i].name, lat |-> places[i].lat, lon |-> places[i].lon]]

\* A submit handler whose finally block leaves the button as it is.
geoFinally_KeepDisabled(s) == [s EXCEPT !.pc = "idle"]

\* finally: the handler ends and the button is enabled.
geoFinally(s) == [s EXCEPT !.pc = "idle", !.submitDisabled = FALSE]

\* A catch that empties the list and the layer of the search before.
geoCatch_ClearPlaces(s) ==
  geoFinally([s EXCEPT !.statusEl = GeoFailed, !.placesList = <<>>,
                       !.markersLayer = <<>>])

\* A catch that reports nothing.
geoCatch_Silent(s) == geoFinally(s)

\* catch: the error is reported; then finally.
geoCatch(s) == geoFinally([s EXCEPT !.statusEl = GeoFailed])

\* The submit listener up to its first await.
geoHandleSubmit(s) ==
  LET searchQuery == trim(s.queryField)
      radius == radiusOf(s.radiusField)
  IN  IF searchQuery = <<>> THEN [s EXCEPT !.statusEl = GeoEnterAddress]
      ELSE [s EXCEPT !.submitDisabled = TRUE,
                     !.statusEl = GeoSeekCoords,
                     !.searchQuery = searchQuery,
                     !.radius = radius,
                     !.sent = @ + 1,
                     !.pc = "geocode-fetch"]

\* The user types an address and submits the form; the browser submits a
\* form only through a submit button that is not disabled.
GeoSubmit ==
  /\ lab = "geo"
  /\ ~geo.submitDisabled
  /\ \E q \in GeoQueries :
       LET typed == [geo EXCEPT !.queryField = q]
       IN  /\ trim(q) # <<>> => geo.submits < MaxSubmits
           /\ geo' = [geoHandleSubmit(typed) EXCEPT
                        !.submits = IF trim(q) # <<>> THEN @ + 1 ELSE @]
  /\ UNCHANGED <<lab, nasa, weather, analysis, call>>

\* geocode's fetch settles: a network failure or a response that is not ok
\* throws into the listener's catch; an ok response has its body read.
GeoGeocodeFetchSettlesWith(outcome) ==
  /\ lab = "geo"
  /\ geo.pc = "geocode-fetch"
  /\ geo' = IF responseOk(outcome) THEN [geo EXCEPT !.pc = "geocode-body"]
            ELSE geoCatch(geo)
  /\ UNCHANGED <<lab, nasa, weather, analysis, call>>

GeoGeocodeFetchSettles == \E outcome \in FetchOutcomes : GeoGeocodeFetchSettlesWith(outcome)

\* geocode's response.json() settles; with a match the map is centred and
\* fetchPlaces sends the Overpass request.
GeoGeocodeJsonSettlesWith(payload) ==
  /\ lab = "geo"
  /\ geo.pc = "geocode-body"
  /\ geo' = IF ~payload.valid THEN geoCatch(geo)
            ELSE IF payload.matches = <<>>
              THEN geoFinally([geo EXCEPT !.statusEl = GeoNoAddress])
            ELSE [geo EXCEPT !.center = payload.matches[1],
                             !.mapView = [lat |-> payload.matches[1].lat,
                                          lon |-> payload.matches[1].lon, zoom |-> 14],
                             !.statusEl = GeoSeekPlaces,
                             !.sent = @ + 1,
                             !.pc = "places-fetch"]
  /\ UNCHANGED <<lab, nasa, weather, analysis, call>>

GeoGeocodeJsonSettles == \E payload \in GeocodePayloads : GeoGeocodeJsonSettlesWith(payload)

\* fetchPlaces' fetch settles.
GeoPlacesFetchSettlesWith(outcome) ==
  /\ lab = "geo"
  /\ geo.pc = "places-fetch"
  /\ geo' = IF responseOk(outcome) THEN [geo EXCEPT !.pc = "places-body"]
            ELSE geoCatch(geo)
  /\ UNCHANGED <<lab, nasa, weather, analysis, call>>

GeoPlacesFetchSettles == \E outcome \in FetchOutcomes : GeoPlacesFetchSettlesWith(outcome)

\* fetchPlaces' response.json() settles and the listener runs to its end:
\* a body that does not decode, or decodes without elements (a TypeError
\* on data.elements.map), is caught; the places are listed and marked.
GeoPlacesJsonSettlesWith(payload) ==
  /\ lab = "geo"
  /\ geo.pc = "places-body"
  /\ geo' = IF ~payload.valid \/ ~payload.hasElements THEN geoCatch(geo)
            ELSE LET places == placesOf(payload)
                 IN  geoFinally([geo EXCEPT
                       !.placesList = renderPlaces(places),
                       !.markersLayer = updateMarkers(geo.center, places),
                       !.statusEl = IF Len(places) > 0 THEN GeoFoundPlaces(Len(places))
                                    ELSE GeoNoPlaces])
  /\ UNCHANGED <<lab, nasa, weather, analysis, call>>

GeoPlacesJsonSettles == \E payload \in PlacesPayloads : GeoPlacesJsonSettlesWith(payload)

\* The page as loaded, with the radius the visitor works with in its field.
GeoInits ==
  { [queryField |-> <<>>, radiusField |-> r, statusEl |-> GeoPrompt,
     submitDisabled |-> FALSE, pc |-> "idle", searchQuery |-> <<>>, radius |-> 0,
     center |-> [lat |-> 0, lon |-> 0], mapView |-> [lat |-> 20, lon |-> 0, zoom |-> 2],
     placesList |-> <<>>, markersLayer |-> <<>>, submits |-> 0, sent |-> 0] :
    r \in GeoRadii }

---------------------------------------------------------------------------
(* Weather forecast: src/Lab5/app.js, lines 1-262 *)

WeatherApiKeys == { <<>>, <<"k", " ">> }

WeatherCities == { <<" ">>, <<"A">>, <<" ", "B">> }

WeatherMetrics == {"temp", "feels_like"}

\* Values of the two datetime fields, as instants; 0 is a field left empty.
NoDate == 0

\* setDefaultPeriod: from now to four days on, in days.
Now == 2

DefaultPeriodDays == 4

StartValues == {NoDate, Now, 5}

EndValues == {4, Now + DefaultPeriodDays}

\* A forecast entry at instant dt; main may be missing from it.
Entry(dt, hasMain) ==
  [dt |-> dt, hasMain |-> hasMain, temp |-> dt + 10, feels_like |-> dt + 8]

\* What the forecast body decodes to: a SyntaxError, an object whose list
\* is no array, or an object with its list.
ForecastPayloads ==
  { [valid |-> FALSE, hasList |-> FALSE, list |-> <<>>],
    [valid |-> TRUE, hasList |-> FALSE, list |-> <<>>] } \cup
  { [valid |-> TRUE, hasList |-> TRUE, list |-> l] :
      l \in { <<>>, <<Entry(6, TRUE), Entry(2, TRUE)>>, <<Entry(7, TRUE)>>,
              <<Entry(3, TRUE), Entry(5, FALSE)>> } }

\* renderStatus(message, isError, isNeutral)
WeatherStatus(kind, n, color) == [kind |-> kind, n |-> n, color |-> color]

WeatherInitialStatus == WeatherStatus("", 0, "neutral")
WeatherEnterKeyCity  == WeatherStatus("enter the API key and the city", 0, "error")  \* line 39
WeatherLoading       == WeatherStatus("loading the data", 0, "neutral")              \* line 49
WeatherHttpError     == WeatherStatus("API error", 0, "error")                       \* line 55
WeatherBadFormat     == WeatherStatus("unexpected response format", 0, "error")      \* line 61
WeatherThrown(why)   == WeatherStatus(why, 0, "error")                               \* line 69
WeatherUnknownMetric == WeatherStatus("unknown parameter", 0, "error")               \* line 88
WeatherBadPeriod     == WeatherStatus("check the period", 0, "error")                \* line 96
WeatherNoData        == WeatherStatus("no data for the period", 0, "error")          \* line 111
WeatherPoints(n)     == WeatherStatus("points received", n, "ok")                    \* line 185

NoChart == [live |-> FALSE]

\* metricConfig[metric].accessor(entry)
accessor(metric, entry) == IF metric = "temp" THEN entry.temp ELSE entry.feels_like

\* A filter that leaves out the entry at the end of the period.
filterPeriod_HalfOpen(list, startDate, endDate) ==
  SelectSeq(list, LAMBDA entry : entry.dt >= startDate /\ entry.dt < endDate)

\* The entries of the forecast within the closed period, in arrival order.
RECURSIVE filterPeriod(_, _, _)
filterPeriod(list, startDate, endDate) ==
  IF list = <<>> THEN <<>>
  ELSE IF Head(list).dt >= startDate /\ Head(list).dt <= endDate
    THEN <<Head(list)>> \o filterPeriod(Tail(list), startDate, endDate)
    ELSE filterPeriod(Tail(list), startDate, endDate)

\* A canvas and the variable that holds its chart: the number of instances
\* bound to the canvas that are not destroyed, what the variable refers to
\* (null, a live instance or a destroyed one), whether a destroyed instance
\* was updated or destroyed again, and whether the instance the variable
\* refers to was given new data in place.
NoInstance == [live |-> 0, ref |-> "null", misused |-> FALSE, patched |-> FALSE]

\* variable = new Chart(canvas, ...): one more instance on the canvas.
newChart(c) ==
  [c EXCEPT !.live = IF c.live < 2 THEN c.live + 1 ELSE 2, !.ref = "live",
            !.patched = FALSE]

\* A destroy() that is forgotten.
chartDestroy_Forgotten(c) == c

\* variable.destroy()
chartDestroy(c) ==
  IF c.ref = "live" THEN [c EXCEPT !.live = c.live - 1, !.ref = "destroyed"]
  ELSE [c EXCEPT !.misused = TRUE]

\* variable.data.datasets = [dataset]; variable.update()
chartUpdate(c) ==
  IF c.ref = "live" THEN [c EXCEPT !.patched = TRUE]
  ELSE [c EXCEPT !.misused = TRUE, !.patched = TRUE]

\* variable = null
chartNull(c) == [c EXCEPT !.ref = "null", !.patched = FALSE]

\* if (variable) { variable.destroy(); variable = null; }
chartDispose(c) == IF c.ref # "null" THEN chartNull(chartDestroy(c)) ELSE c

\* A new chart on the canvas of the one the variable held.
chartReplace_OnTop(c) == newChart(c)

\* if (variable) { variable.destroy(); } variable = new Chart(...)
chartReplace(c) == newChart(IF c.ref # "null" THEN chartDestroy(c) ELSE c)

\* destroyChart
destroyChart(s) ==
  [s EXCEPT !.chartInstance = NoChart, !.canvas = chartDispose(s.canvas)]

\* Whether updateChart throws: the accessor reads main of an entry in the
\* period that has none.
updateChartThrows(s) ==
  /\ s.metricSelect \in WeatherMetrics
  /\ s.startInput # NoDate /\ s.endInput # NoDate /\ s.startInput < s.endInput
  /\ \E i \in 1..Len(s.lastForecast) :
       /\ s.lastForecast[i].dt >= s.startInput /\ s.lastForecast[i].dt <= s.endInput
       /\ ~s.lastForecast[i].hasMain

\* updateChart, when it does not throw.
updateChart(s) ==
  IF s.metricSelect \notin WeatherMetrics
    THEN [s EXCEPT !.statusEl = WeatherUnknownMetric]
  ELSE IF s.startInput = NoDate \/ s.endInput = NoDate \/ s.startInput >= s.endInput
    THEN [s EXCEPT !.statusEl = WeatherBadPeriod]
  ELSE LET entries == filterPeriod(s.lastForecast, s.startInput, s.endInput)
           points == [i \in 1..Len(entries) |->
                        [x |-> entries[i].dt, y |-> accessor(s.metricSelect, entries[i])]]
           dataset == [metric |-> s.metricSelect, city |-> trim(s.cityInput),
                       data |-> points]
       IN  IF Len(entries) = 0
             THEN destroyChart([s EXCEPT !.statusEl = WeatherNoData])
             ELSE [s EXCEPT
                     !.chartInstance = [live |-> TRUE, dataset |-> dataset],
                     !.canvas = IF s.canvas.ref = "null" THEN newChart(s.canvas)
                                ELSE chartUpdate(s.canvas),
                     !.statusEl = WeatherPoints(Len(entries))]

\* persistPreferences
persistPreferences(s, apiKey, city) ==
  [s EXCEPT !.localStorage =
     [ow_apiKey |-> apiKey, ow_city |-> city, ow_metric |-> s.metricSelect]]

\* A toggleForm that never enables the form again.
toggleForm_StayDisabled(s, isLoading) ==
  [s EXCEPT !.loadBtnDisabled = TRUE, !.controlsDisabled = TRUE]

\* toggleForm: the button and, but for the API key's, the controls.
toggleForm(s, isLoading) ==
  [s EXCEPT !.loadBtnDisabled = isLoading, !.controlsDisabled = isLoading]

\* A catch that forgets the forecast the page has cached.
weatherCatch_ForgetForecast(s, status) ==
  [s EXCEPT !.statusEl = status, !.lastForecast = <<>>]

\* A catch that stores the preferences of the submission that failed.
weatherCatch_Persist(s, status) ==
  persistPreferences([s EXCEPT !.statusEl = status], s.request.appid, s.request.q)

\* A catch that leaves the status text as it is.
weatherCatch_Silent(s, status) == s

\* .catch: the error's message becomes the status text.
weatherCatch(s, status) == [s EXCEPT !.statusEl = status]

\* .finally
weatherFinally(s) == toggleForm([s EXCEPT !.pc = "idle"], FALSE)

\* handleSubmit up to the fetch.
weatherHandleSubmit(s) ==
  LET apiKey == trim(s.apiKeyInput)
      city == trim(s.cityInput)
  IN  IF apiKey = <<>> \/ city = <<>>
        THEN [s EXCEPT !.statusEl = WeatherEnterKeyCity]
        ELSE toggleForm([s EXCEPT !.statusEl = WeatherLoading,
                                  !.request = [appid |-> apiKey, q |-> city],
                                  !.pc = "fetch"], TRUE)

\* The user types the key and the city and submits the form through its
\* button, which the browser lets do while it is not disabled.
WeatherSubmit ==
  /\ lab = "weather"
  /\ ~weather.loadBtnDisabled
  /\ \E k \in WeatherApiKeys, c \in WeatherCities :
       weather' = weatherHandleSubmit([weather EXCEPT !.apiKeyInput = k, !.cityInput = c])
  /\ UNCHANGED <<lab, nasa, geo, analysis, call>>

\* fetch settles: a network failure and a response that is not ok are
\* caught; an ok response has its body read.
WeatherFetchSettlesWith(outcome) ==
  /\ lab = "weather"
  /\ weather.pc = "fetch"
  /\ weather' =
       IF outcome = "network" THEN weatherFinally(weatherCatch(weather, WeatherThrown("network")))
       ELSE IF ~responseOk(outcome)
         THEN weatherFinally(weatherCatch(weather, WeatherHttpError))
       ELSE [weather EXCEPT !.pc = "body"]
  /\ UNCHANGED <<lab, nasa, geo, analysis, call>>

WeatherFetchSettles == \E outcome \in FetchOutcomes : WeatherFetchSettlesWith(outcome)

\* response.json() settles and the chain runs to its finally.  With the
\* list it caches the page records in forecastCity, which the code does
\* not hold, the city the list was requested for.
WeatherJsonSettlesWith(payload) ==
  /\ lab = "weather"
  /\ weather.pc = "body"
  /\ weather' =
       IF ~payload.valid THEN weatherFinally(weatherCatch(weather, WeatherThrown("decode")))
       ELSE IF ~payload.hasList
         THEN weatherFinally(weatherCatch(weather, WeatherBadFormat))
       ELSE LET stored == persistPreferences(
                            [weather EXCEPT !.lastForecast = payload.list,
                                            !.forecastCity = weather.request.q],
                            weather.request.appid, weather.request.q)
            IN  IF updateChartThrows(stored)
                  THEN weatherFinally(weatherCatch(stored, WeatherThrown("type")))
                  ELSE weatherFinally(updateChart(stored))
  /\ UNCHANGED <<lab, nasa, geo, analysis, call>>

WeatherJsonSettles == \E payload \in ForecastPayloads : WeatherJsonSettlesWith(payload)

\* handleQuickUpdate after the change of the metric or of a date field;
\* a disabled control cannot be changed.  An exception of updateChart
\* leaves the handler before anything is written.
WeatherQuickUpdateTo(m, a, b) ==
  /\ lab = "weather"
  /\ ~weather.controlsDisabled
  /\ LET changed == [weather EXCEPT !.metricSelect = m, !.startInput = a,
                                    !.endInput = b]
     IN  /\ Cardinality({f \in {"m", "a", "b"} :
                \/ f = "m" /\ m # weather.metricSelect
                \/ f = "a" /\ a # weather.startInput
                \/ f = "b" /\ b # weather.endInput}) = 1
         /\ weather' = IF Len(changed.lastForecast) = 0 \/ updateChartThrows(changed)
                         THEN changed
                         ELSE updateChart(changed)
  /\ UNCHANGED <<lab, nasa, geo, analysis, call>>

WeatherQuickUpdate ==
  \E m \in WeatherMetrics, a \in StartValues, b \in EndValues :
    WeatherQuickUpdateTo(m, a, b)

\* The page as its document gives it to init, over what is stored.
WeatherDocument(localStorage) ==
  [apiKeyInput |-> <<>>, cityInput |-> <<>>, metricSelect |-> "temp",
   startInput |-> NoDate, endInput |-> NoDate,
   statusEl |-> WeatherInitialStatus, loadBtnDisabled |-> FALSE,
   controlsDisabled |-> FALSE, chartInstance |-> NoChart, canvas |-> NoInstance,
   lastForecast |-> <<>>, forecastCity |-> <<>>,
   localStorage |-> localStorage,
   request |-> [appid |-> <<>>, q |-> <<>>], pc |-> "idle"]

\* A restorePreferences that restores the key alone.
restorePreferences_KeyOnly(s) ==
  IF s.localStorage.ow_apiKey # <<>>
    THEN [s EXCEPT !.apiKeyInput = s.localStorage.ow_apiKey]
    ELSE s

\* restorePreferences: a stored value that is there and not empty goes to
\* its field, the metric only if metricConfig knows it.
restorePreferences(s) ==
  LET storedApiKey == s.localStorage.ow_apiKey
      storedCity == s.localStorage.ow_city
      storedMetric == s.localStorage.ow_metric
  IN  [s EXCEPT
         !.apiKeyInput = IF storedApiKey # <<>> THEN storedApiKey ELSE @,
         !.cityInput = IF storedCity # <<>> THEN storedCity ELSE @,
         !.metricSelect = IF storedMetric # "" /\ storedMetric \in WeatherMetrics
                            THEN storedMetric ELSE @]

\* setDefaultPeriod
setDefaultPeriod(s) ==
  [s EXCEPT !.startInput = Now, !.endInput = Now + DefaultPeriodDays]

\* init: the page of a document loaded over what is stored.
weatherInit(localStorage) ==
  setDefaultPeriod(restorePreferences(WeatherDocument(localStorage)))

\* The visitor loads the page again: a new document, whose script finds
\* what the page before it has stored.
WeatherLoad ==
  /\ lab = "weather"
  /\ weather' = weatherInit(weather.localStorage)
  /\ UNCHANGED <<lab, nasa, geo, analysis, call>>

\* The page after init: nothing stored, the default period set.
WeatherInit ==
  [apiKeyInput |-> <<>>, cityInput |-> <<>>, metricSelect |-> "temp",
   startInput |-> Now, endInput |-> Now + DefaultPeriodDays,
   statusEl |-> WeatherInitialStatus, loadBtnDisabled |-> FALSE,
   controlsDisabled |-> FALSE, chartInstance |-> NoChart, canvas |-> NoInstance,
   lastForecast |-> <<>>, forecastCity |-> <<>>,
   localStorage |-> [ow_apiKey |-> <<>>, ow_city |-> <<>>, ow_metric |-> ""],
   request |-> [appid |-> <<>>, q |-> <<>>], pc |-> "idle"]

---------------------------------------------------------------------------
(* Text analysis: MeaningCloud, src/Lab5/app.js lines 264-688, and         *)
(* Twinword, src/unnamed/part_001.  The two listeners are the same but for *)
(* the envelope their services answer with.                                *)

AnalysisTexts == { <<>>, <<" ">>, <<"t", " ">> }

AnalysisApiKeys == { <<>>, <<"k">> }

Requests == {"sentiment", "topics"}

\* The code field of a service's envelope (status.code, result_code):
\* missing, or a string.
NoCode == [present |-> FALSE, value |-> ""]

Code(v) == [present |-> TRUE, value |-> v]

EnvelopeCodes == {NoCode, Code(""), Code("0"), Code("100"), Code("200")}

\* The code with which the page's service reports success.
SuccessCode(l) == IF l = "meaningcloud" THEN "0" ELSE "200"

\* What a body decodes to: a SyntaxError, or the envelope with the number
\* of keywords the data carries.
AnalysisBodies ==
  { [valid |-> FALSE, code |-> NoCode, keywords |-> 0] } \cup
  { [valid |-> TRUE, code |-> c, keywords |-> n] : c \in EnvelopeCodes, n \in {0, 2} }

\* showMessage(text, isError)
AnalysisMessage(kind, isError) == [kind |-> kind, isError |-> isError]

AnalysisInitialMessage == AnalysisMessage("as loaded", FALSE)
AnalysisNoMessage   == AnalysisMessage("", FALSE)                        \* line 324
AnalysisEnterText   == AnalysisMessage("enter a text", TRUE)             \* line 293
AnalysisEnterKey    == AnalysisMessage("enter the key", TRUE)            \* line 298
AnalysisRunning     == AnalysisMessage("analysis is running", FALSE)     \* line 303
AnalysisDone        == AnalysisMessage("analysis done", FALSE)           \* line 314
AnalysisThrown(why) == AnalysisMessage(why, TRUE)                        \* line 317

\* A truthiness test that takes every present code for set.
Truthy_Present(code) == code.present

\* JavaScript's truthiness of a string that may be missing.
Truthy(code) == code.present /\ code.value # ""

\* An envelope check that takes every code but the success code for an
\* error, a missing one too.
envelopeError_Strict(l, code) == ~(code.present /\ code.value = SuccessCode(l))

\* data.status?.code && data.status.code !== '0'
\* data.result_code && data.result_code !== '200'
envelopeError(l, code) == Truthy(code) /\ code.value # SuccessCode(l)

\* A fetch function that checks the envelope before response.ok.
fetchOutcome_OkUnchecked(l, ok, body) ==
  IF ~body.valid THEN "decode"
  ELSE IF envelopeError(l, body.code) THEN "api"
  ELSE "data"

\* What fetchSentiment, fetchTopics and fetchKeywords end in once the body
\* has been read: the error they throw, or "data" when they return it.
fetchOutcome(l, ok, body) ==
  IF ~body.valid THEN "decode"
  ELSE IF ~ok THEN "http"
  ELSE IF envelopeError(l, body.code) THEN "api"
  ELSE "data"

\* A toggleLoading that leaves the button disabled.
toggleLoading_StayDisabled(s, isLoading) == [s EXCEPT !.analyzeBtnDisabled = TRUE]

toggleLoading(s, isLoading) == [s EXCEPT !.analyzeBtnDisabled = isLoading]

\* A catch that shows the sentiment the submission did receive.
analysisCatch_ShowSentiment(s, why) ==
  toggleLoading([s EXCEPT !.messageEl = AnalysisThrown(why), !.awaiting = FALSE,
                          !.sentimentCells = s.submits], FALSE)

\* catch and finally of the submit listener.
analysisCatch(s, why) ==
  toggleLoading([s EXCEPT !.messageEl = AnalysisThrown(why), !.awaiting = FALSE], FALSE)

\* renderSentiment: the cells, and a new chart in place of the old one.
renderSentiment(s, id) ==
  [s EXCEPT !.sentimentCells = id, !.sentimentChart = id,
            !.sentimentCanvas = chartReplace(s.sentimentCanvas)]

\* renderKeywords: the table, and a new chart in place of the old one;
\* without keywords the placeholder row and no chart.
renderKeywords(s, id, keywords) ==
  IF keywords = 0
    THEN [s EXCEPT !.keywordsTable = [rows |-> 0, of |-> id], !.keywordsChart = 0,
                   !.keywordsCanvas = chartDispose(s.keywordsCanvas)]
    ELSE [s EXCEPT !.keywordsTable = [rows |-> keywords, of |-> id],
                   !.keywordsChart = id,
                   !.keywordsCanvas = chartReplace(s.keywordsCanvas)]

renderStats(s, id) == [s EXCEPT !.statsCells = id]

\* The listener after Promise.all has fulfilled, to its end.
analysisRender(s) ==
  toggleLoading(
    [renderStats(renderKeywords(renderSentiment(s, s.submits), s.submits,
                                s.requests["topics"].keywords), s.submits)
       EXCEPT !.messageEl = AnalysisDone, !.awaiting = FALSE],
    FALSE)

\* Requests of the submission that are still running.
LiveOf(requests) == {r \in Requests : requests[r].st \in {"fetch", "body"}}

\* The submit listener up to its await.
analysisHandleSubmit(s) ==
  LET apiKey == trim(s.apiKey)
      text == trim(s.text)
  IN  IF text = <<>> THEN [s EXCEPT !.messageEl = AnalysisEnterText]
      ELSE IF apiKey = <<>> THEN [s EXCEPT !.messageEl = AnalysisEnterKey]
      ELSE [toggleLoading(s, TRUE) EXCEPT
              !.messageEl = AnalysisRunning,
              !.submits = @ + 1,
              !.resetSince = FALSE,
              !.stragglers = @ + Cardinality(LiveOf(s.requests)),
              !.requests = [r \in Requests |->
                              [st |-> "fetch", ok |-> FALSE, keywords |-> 0]],
              !.awaiting = TRUE]

\* The user types a text and a key and submits the form through its
\* button, which the browser lets do while it is not disabled.
AnalysisSubmit ==
  /\ lab \in AnalysisLabs
  /\ ~analysis.analyzeBtnDisabled
  /\ \E t \in AnalysisTexts, k \in AnalysisApiKeys :
       /\ (trim(t) # <<>> /\ trim(k) # <<>>) => analysis.submits < MaxSubmits
       /\ analysis' = analysisHandleSubmit([analysis EXCEPT !.text = t, !.apiKey = k])
  /\ UNCHANGED <<lab, nasa, geo, weather, call>>

\* The fetch of one of the two requests settles.  A network failure
\* rejects Promise.all, and the listener, if it still waits, catches it.
AnalysisFetchSettlesWith(r, outcome) ==
  /\ lab \in AnalysisLabs
  /\ analysis.requests[r].st = "fetch"
  /\ analysis' =
       IF outcome = "network"
         THEN LET s == [analysis EXCEPT !.requests[r].st = "rejected"]
              IN  IF analysis.awaiting THEN analysisCatch(s, "network") ELSE s
         ELSE [analysis EXCEPT !.requests[r].st = "body",
                               !.requests[r].ok = responseOk(outcome)]
  /\ UNCHANGED <<lab, nasa, geo, weather, call>>

AnalysisFetchSettles ==
  \E r \in Requests, outcome \in FetchOutcomes : AnalysisFetchSettlesWith(r, outcome)

\* response.json() of one of the two requests settles and its fetch
\* function ends.  An error rejects Promise.all; the second of two results
\* fulfils it, and the listener renders.
AnalysisJsonSettlesWith(r, body) ==
  /\ lab \in AnalysisLabs
  /\ analysis.requests[r].st = "body"
  /\ LET outcome == fetchOutcome(lab, analysis.requests[r].ok, body)
         s == [analysis EXCEPT
                 !.requests[r].st = IF outcome = "data" THEN "fulfilled" ELSE "rejected",
                 !.requests[r].keywords = IF outcome = "data" THEN body.keywords ELSE 0]
     IN  analysis' =
           IF ~analysis.awaiting THEN s
           ELSE IF outcome # "data" THEN analysisCatch(s, outcome)
           ELSE IF \A q \in Requests : s.requests[q].st = "fulfilled"
             THEN analysisRender(s)
           ELSE s
  /\ UNCHANGED <<lab, nasa, geo, weather, call>>

AnalysisJsonSettles ==
  \E r \in Requests, body \in AnalysisBodies : AnalysisJsonSettlesWith(r, body)

\* A request of an earlier submission, left running when its listener
\* ended, settles: nobody awaits it.
AnalysisStragglerSettles ==
  /\ lab \in AnalysisLabs
  /\ analysis.stragglers > 0
  /\ analysis' = [analysis EXCEPT !.stragglers = @ - 1]
  /\ UNCHANGED <<lab, nasa, geo, weather, call>>

\* The reset listener; the browser then empties the fields.  The page
\* records in resetSince, which the code does not hold, that the form was
\* reset after the last submission that passed validation.
AnalysisReset ==
  /\ lab \in AnalysisLabs
  /\ analysis' = [analysis EXCEPT
                    !.messageEl = AnalysisNoMessage,
                    !.sentimentCells = 0,
                    !.keywordsTable = [rows |-> 0, of |-> 0],
                    !.statsCells = 0,
                    !.sentimentChart = 0,
                    !.keywordsChart = 0,
                    !.sentimentCanvas = chartDispose(analysis.sentimentCanvas),
                    !.keywordsCanvas = chartDispose(analysis.keywordsCanvas),
                    !.text = <<>>,
                    !.apiKey = <<>>,
                    !.resetSince = TRUE]
  /\ UNCHANGED <<lab, nasa, geo, weather, call>>

\* The page as loaded: placeholders in the panels, no chart, no request.
AnalysisInit ==
  [text |-> <<>>, apiKey |-> <<>>, messageEl |-> AnalysisInitialMessage,
   analyzeBtnDisabled |-> FALSE, sentimentCells |-> 0,
   keywordsTable |-> [rows |-> 0, of |-> 0], statsCells |-> 0,
   sentimentChart |-> 0, keywordsChart |-> 0,
   sentimentCanvas |-> NoInstance, keywordsCanvas |-> NoInstance,
   requests |-> [r \in Requests |-> [st |-> "none", ok |-> FALSE, keywords |-> 0]],
   awaiting |-> FALSE, stragglers |-> 0, submits |-> 0, resetSince |-> FALSE]

---------------------------------------------------------------------------

Init ==
  /\ lab \in Labs
  /\ nasa \in (IF lab = "nasa" THEN NasaInits ELSE {NotLoaded})
  /\ geo \in (IF lab = "geo" THEN GeoInits ELSE {NotLoaded})
  /\ weather = (IF lab = "weather" THEN WeatherInit ELSE NotLoaded)
  /\ analysis = (IF lab \in AnalysisLabs THEN AnalysisInit ELSE NotLoaded)
  /\ call = NoCall

Next ==
  \/ NasaSubmit
  \/ NasaFetchSettles
  \/ NasaJsonSettles
  \/ NasaAbortSettles
  \/ GeoSubmit
  \/ GeoGeocodeFetchSettles
  \/ GeoGeocodeJsonSettles
  \/ GeoPlacesFetchSettles
  \/ GeoPlacesJsonSettles
  \/ WeatherSubmit
  \/ WeatherFetchSettles
  \/ WeatherJsonSettles
  \/ WeatherQuickUpdate
  \/ WeatherLoad
  \/ AnalysisSubmit
  \/ AnalysisFetchSettles
  \/ AnalysisJsonSettles
  \/ AnalysisStragglerSettles
  \/ AnalysisReset

Spec == Init /\ [][Next]_vars

---------------------------------------------------------------------------
(* The pages' pure functions, called on their own *)

\* Longest text drawn letter by letter as an argument.
MaxTextLen == 3

\* An optional field of a decoded payload: missing, or present with a value.
Absent == [present |-> FALSE, value |-> <<>>]

Present(v) == [present |-> TRUE, value |-> v]

\* How a call ends: it returns a value, or it throws (a TypeError).
Returned(v) == [threw |-> FALSE, value |-> v]

Thrown == [threw |-> TRUE, value |-> <<>>]

\* The texts of a given length over a letter and the space.
TextsOfLen(n) == [1..n -> {"a", " "}]

ShortTexts == UNION { TextsOfLen(n) : n \in 0..MaxTextLen }

\* A text of n letters.
Filled(n) == [i \in 1..n |-> "a"]

Max(a, b) == IF a >= b THEN a ELSE b

\* String.prototype.slice(0, end): a negative end counts from the end.
slice(text, end) ==
  SubSeq(text, 1, IF end >= 0 THEN Min(end, Len(text)) ELSE Max(Len(text) + end, 0))

\* truncate's default limit.
DEFAULT_LIMIT == 200

\* The placeholder description (20 characters in the source too).
DescriptionPlaceholder ==
  <<"n", "o", " ", "d", "e", "s", "c", "r", "i", "p", "t", "i", "o", "n", " ",
    "g", "i", "v", "e", "n">>

\* The mark that ends a truncated text: three full stops.
Ellipsis == <<".", ".", ".">>

\* truncate(text, limit)
truncate(text, limit) ==
  IF ~text.present \/ text.value = <<>> THEN DescriptionPlaceholder
  ELSE IF Len(text.value) <= limit THEN text.value
  ELSE trim(slice(text.value, limit - 1)) \o Ellipsis

\* The limits truncate is called with: the default, and small ones.
TruncateLimits == {1, 2, DEFAULT_LIMIT}

\* The texts truncate is called with: a missing one, the short ones, and
\* texts around the default limit.
TruncateTexts ==
  {Absent} \cup { Present(t) : t \in ShortTexts } \cup
  { Present(Filled(n)) : n \in {DEFAULT_LIMIT - 1, DEFAULT_LIMIT, DEFAULT_LIMIT + 1} } \cup
  { Present(Filled(DEFAULT_LIMIT - 2) \o <<" ", "a", "a">>) }

TruncateCalls ==
  { [fn |-> "truncate", text |-> t, limit |-> l, done |-> FALSE, result |-> <<>>] :
      t \in TruncateTexts, l \in TruncateLimits }

\* truncate is applied to its arguments.
CallTruncate ==
  /\ call.fn = "truncate" /\ ~call.done
  /\ call' = [call EXCEPT !.done = TRUE, !.result = truncate(call.text, call.limit)]
  /\ UNCHANGED <<lab, nasa, geo, weather, analysis>>

\* formatDate: the empty text for a missing or unreadable date.
formatDate(rawValue) ==
  IF ~rawValue.present \/ rawValue.value # <<"2020-01-01">> THEN <<>>
  ELSE <<"1 January 2020">>

\* The items of a NASA payload: description, date_created and links may
\* each be missing; links may be empty.
NasaItems ==
  { [description |-> d, date_created |-> c, links |-> l] :
      d \in {Absent, Present(<<>>), Present(<<"a", " ">>), Present(Filled(DEFAULT_LIMIT + 1))},
      c \in {Absent, Present(<<"no date">>), Present(<<"2020-01-01">>)},
      l \in {Absent, Present(<<>>), Present(<<"href">>)} }

\* createCard: what the card shows of the item.
createCard(item) ==
  LET links == IF item.links.present THEN item.links.value ELSE <<>>
  IN  Returned([description |-> truncate(item.description, DEFAULT_LIMIT),
                date |-> formatDate(item.date_created),
                previewUrl |-> IF links = <<>> THEN "" ELSE links[1]])

\* What fetchPlaces makes of a decoded payload: data.elements.map throws
\* a TypeError when the payload has no elements.
fetchPlacesResult(payload) ==
  IF ~payload.hasElements THEN Thrown ELSE Returned(placesOf(payload))

\* The points updateChart makes of the entries of the period: the accessor
\* throws a TypeError on an entry without main.
chartPoints(metric, entries) ==
  IF \E i \in 1..Len(entries) : ~entries[i].hasMain THEN Thrown
  ELSE Returned([i \in 1..Len(entries) |->
                   [x |-> entries[i].dt, y |-> accessor(metric, entries[i])]])

\* Longest concept list and longest keyword map of a payload.
MaxListLen == 2

\* The sequences over S of at most n elements.
SeqsUpTo(S, n) == UNION { [1..k -> S] : k \in 0..n }

\* Number(item.relevance) || 0 of a relevance that arrives as text, or is
\* missing.
relevanceOf(raw) ==
  IF ~raw.present THEN 0
  ELSE LET n == Number(raw.value) IN IF n.isNaN THEN 0 ELSE n.value

\* A sort that puts an item before the items of its own score.
RECURSIVE InsertByScore_BeforeEquals(_, _)
InsertByScore_BeforeEquals(sorted, item) ==
  IF sorted = <<>> THEN <<item>>
  ELSE IF item.score >= Head(sorted).score THEN <<item>> \o sorted
  ELSE <<Head(sorted)>> \o InsertByScore_BeforeEquals(Tail(sorted), item)

\* Array.prototype.sort with (a, b) => b.score - a.score, which is stable:
\* an item goes before the first item of a strictly smaller score.
RECURSIVE InsertByScore(_, _)
InsertByScore(sorted, item) ==
  IF sorted = <<>> THEN <<item>>
  ELSE IF item.score > Head(sorted).score THEN <<item>> \o sorted
  ELSE <<Head(sorted)>> \o InsertByScore(Tail(sorted), item)

RECURSIVE SortByScore(_)
SortByScore(items) ==
  IF items = <<>> THEN <<>>
  ELSE InsertByScore(SortByScore(SubSeq(items, 1, Len(items) - 1)), items[Len(items)])

\* The label of an item: item.form may be missing.
NoLabel == [present |-> FALSE, value |-> ""]

Label(v) == [present |-> TRUE, value |-> v]

\* filter((item) => item.label)
HasLabel(item) == item.label.present /\ item.label.value # ""

\* The keys of a keyword map that are array indices.
IndexKeys == {"7", "10"}

\* Object.entries of a keyword map given in payload order: the keys that
\* are array indices first, in ascending numeric order, then the other
\* keys in payload order.
objectEntries(pairs) ==
  LET Is7(e) == e.label = "7"
      Is10(e) == e.label = "10"
      IsName(e) == e.label \notin IndexKeys
  IN  SelectSeq(pairs, Is7) \o SelectSeq(pairs, Is10) \o SelectSeq(pairs, IsName)

\* extractKeywords of the MeaningCloud page (relevance) and of the Twinword
\* page (weight); score is the relevance or the weight.
extractKeywords(l, data) ==
  LET concepts == IF data.concept_list.present THEN data.concept_list.value ELSE <<>>
      entities == IF data.entity_list.present THEN data.entity_list.value ELSE <<>>
      keywordMap == IF data.keyword.present THEN objectEntries(data.keyword.value) ELSE <<>>
      items ==
        IF l = "meaningcloud"
          THEN [i \in 1..Len(concepts) |->
                  [label |-> concepts[i].form, source |-> "Concept",
                   score |-> relevanceOf(concepts[i].relevance)]] \o
               [i \in 1..Len(entities) |->
                  [label |-> entities[i].form, source |-> "Entity",
                   score |-> relevanceOf(entities[i].relevance)]]
          ELSE [i \in 1..Len(keywordMap) |->
                  [label |-> Label(keywordMap[i].label), source |-> "Twinword",
                   score |-> keywordMap[i].weight]]
  IN  Returned(SortByScore(SelectSeq(items, HasLabel)))

\* The items of a concept or entity list: form and relevance may be missing.
TopicItems ==
  { [form |-> f, relevance |-> r] :
      f \in {NoLabel, Label("k"), Label("m")},
      r \in {Absent, Present(<<"1">>), Present(<<"2">>)} }

\* The entries of a keyword map, in payload order; no key occurs twice.
KeywordMaps ==
  { m \in SeqsUpTo({ [label |-> k, weight |-> w] :
                       k \in {"k", "m", "", "7", "10"}, w \in {1, 2} }, MaxListLen) :
      \A i, j \in 1..Len(m) : i # j => m[i].label # m[j].label }

\* The decoded payloads: every list may be missing.
KeywordData ==
  { [lab |-> "meaningcloud", concept_list |-> c, entity_list |-> e, keyword |-> Absent] :
      c \in {Absent} \cup { Present(x) : x \in SeqsUpTo(TopicItems, MaxListLen) },
      e \in {Absent} \cup { Present(x) : x \in SeqsUpTo(TopicItems, MaxListLen - 1) } } \cup
  { [lab |-> "twinword", concept_list |-> Absent, entity_list |-> Absent, keyword |-> k] :
      k \in {Absent} \cup { Present(m) : m \in KeywordMaps } }

ExtractKeywordsCalls ==
  { [fn |-> "extractKeywords", data |-> d, done |-> FALSE, result |-> Thrown] :
      d \in KeywordData }

\* extractKeywords is applied to a decoded payload.
CallExtractKeywords ==
  /\ call.fn = "extractKeywords" /\ ~call.done
  /\ call' = [call EXCEPT !.done = TRUE,
                          !.result = extractKeywords(call.data.lab, call.data)]
  /\ UNCHANGED <<lab, nasa, geo, weather, analysis>>

CreateCardCalls ==
  { [fn |-> "createCard", item |-> i, done |-> FALSE, result |-> Thrown] : i \in NasaItems }

FetchPlacesCalls ==
  { [fn |-> "fetchPlaces", payload |-> p, done |-> FALSE, result |-> Thrown] :
      p \in { q \in PlacesPayloads : q.valid } }

ChartPointsCalls ==
  { [fn |-> "chartPoints", metric |-> m, entries |-> p.list, done |-> FALSE,
     result |-> Thrown] :
      m \in WeatherMetrics, p \in { q \in ForecastPayloads : q.hasList } }

\* createCard is applied to an item.
CallCreateCard ==
  /\ call.fn = "createCard" /\ ~call.done
  /\ call' = [call EXCEPT !.done = TRUE, !.result = createCard(call.item)]
  /\ UNCHANGED <<lab, nasa, geo, weather, analysis>>

\* fetchPlaces normalizes a decoded payload.
CallFetchPlaces ==
  /\ call.fn = "fetchPlaces" /\ ~call.done
  /\ call' = [call EXCEPT !.done = TRUE, !.result = fetchPlacesResult(call.payload)]
  /\ UNCHANGED <<lab, nasa, geo, weather, analysis>>

\* updateChart maps the entries to points.
CallChartPoints ==
  /\ call.fn = "chartPoints" /\ ~call.done
  /\ call' = [call EXCEPT !.done = TRUE,
                          !.result = chartPoints(call.metric, call.entries)]
  /\ UNCHANGED <<lab, nasa, geo, weather, analysis>>

InitCalls ==
  /\ lab \in Labs
  /\ nasa = NotLoaded /\ geo = NotLoaded /\ weather = NotLoaded /\ analysis = NotLoaded
  /\ \/ lab = "nasa" /\ call \in TruncateCalls
     \/ lab = "nasa" /\ call \in CreateCardCalls
     \/ lab = "geo" /\ call \in FetchPlacesCalls
     \/ lab = "weather" /\ call \in ChartPointsCalls
     \/ lab \in AnalysisLabs /\ call \in { c \in ExtractKeywordsCalls : c.data.lab = lab }

NextCalls ==
  \/ CallTruncate
  \/ CallCreateCard
  \/ CallFetchPlaces
  \/ CallChartPoints
  \/ CallExtractKeywords

SpecCalls == InitCalls /\ [][NextCalls]_vars

---------------------------------------------------------------------------
(* Properties *)

\* Requests the page has issued that have not settled and are not cancelled.
LiveRequests ==
  CASE lab = "nasa" ->
         Cardinality({id \in 1..Len(nasa.requests) : NasaLive(nasa.requests[id])})
    [] lab = "geo" -> IF geo.pc = "idle" THEN 0 ELSE 1
    [] lab = "weather" -> IF weather.pc = "idle" THEN 0 ELSE 1
    [] OTHER -> Cardinality(LiveOf(analysis.requests)) + analysis.stragglers

\* A submit listener waits for a response.
ListenerPending ==
  CASE lab = "nasa" ->
         Len(nasa.requests) > 0 /\ NasaLive(nasa.requests[Len(nasa.requests)])
    [] lab = "geo" -> geo.pc # "idle"
    [] lab = "weather" -> weather.pc # "idle"
    [] OTHER -> analysis.awaiting

\* The status text is the page's loading message.
Loading ==
  CASE lab = "nasa" -> nasa.statusElement = NasaLoading
    [] lab = "geo" -> geo.statusEl \in {GeoSeekCoords, GeoSeekPlaces}
    [] lab = "weather" -> weather.statusEl = WeatherLoading
    [] OTHER -> analysis.messageEl = AnalysisRunning

\* The status text is a terminal message: a success count or an error text.
Terminal ==
  CASE lab = "nasa" ->
         nasa.statusElement.kind \in {"results found", "nothing found", "request failed"}
    [] lab = "geo" -> geo.statusEl.tone \in {"success", "warning", "error"}
    [] lab = "weather" -> weather.statusEl.color \in {"ok", "error"}
    [] OTHER -> analysis.messageEl = AnalysisDone \/ analysis.messageEl.isError

\* The step issues a request.
IssuesRequest ==
  CASE lab = "nasa" -> Len(nasa'.requests) > Len(nasa.requests)
    [] lab = "geo" -> geo'.sent > geo.sent
    [] lab = "weather" -> weather.pc = "idle" /\ weather'.pc = "fetch"
    [] OTHER -> analysis'.submits > analysis.submits

\* A text that is empty once trimmed: nothing but white space.
Blank(text) == \A i \in 1..Len(text) : text[i] = " "

\* C1 (as stated): on every form, whatever the submissions and the arrivals
\* of responses, at most one request that the form issued is live.
C1_OneLiveRequestOnEveryForm == LiveRequests <= 1

\* C1 (amended): on the NASA, geo and weather forms at most one request is
\* live at any time, and while a geo or weather request is live the submit
\* control is disabled; the text-analysis forms are left out (they send two
\* requests at once and cancel none).
C1_OneLiveRequestOutsideAnalysis ==
  /\ lab \notin AnalysisLabs => LiveRequests <= 1
  /\ (lab = "geo" /\ LiveRequests > 0) => geo.submitDisabled
  /\ (lab = "weather" /\ LiveRequests > 0) => weather.loadBtnDisabled

\* A NASA submission has cancelled the request before it and runs its own.
C1_Witness ==
  /\ lab = "nasa"
  /\ \E i, j \in 1..Len(nasa.requests) :
       nasa.requests[i].aborted /\ NasaLive(nasa.requests[j])

\* C2: on the NASA form only the response to the most recent valid
\* submission is rendered: the results container never holds more than one
\* result set, the one it holds is the latest request's, and a status text
\* that reports a response reports the latest request's.
C2_OnlyLatestSubmissionRendered ==
  lab = "nasa" =>
    /\ Len(nasa.resultsContainer) <= 1
    /\ \A i \in 1..Len(nasa.resultsContainer) :
         nasa.resultsContainer[i].request = Len(nasa.requests)
    /\ nasa.statusElement.kind \in {"results found", "nothing found", "request failed"} =>
         /\ Len(nasa.requests) > 0
         /\ nasa.requests[Len(nasa.requests)].st = "settled"
         /\ ~nasa.requests[Len(nasa.requests)].aborted

\* Two submissions in quick succession: the first was cancelled, and the one
\* rendered result set is the second's.
C2_Witness ==
  /\ lab = "nasa"
  /\ Len(nasa.requests) = 2
  /\ nasa.requests[1].aborted
  /\ Len(nasa.resultsContainer) = 1
  /\ nasa.resultsContainer[1].request = 2

\* C3: in every lab a submission whose required field is blank issues no
\* request and sets the status text to a validation message.
C3_BlankFieldSendsNothing ==
  [][ /\ (NasaSubmit /\ Blank(nasa'.searchInput)) =>
           /\ nasa'.requests = nasa.requests
           /\ nasa'.statusElement = NasaEnterQuery
      /\ (GeoSubmit /\ Blank(geo'.queryField)) =>
           /\ geo'.sent = geo.sent /\ geo'.pc = "idle"
           /\ geo'.statusEl = GeoEnterAddress
      /\ (WeatherSubmit /\ (Blank(weather'.apiKeyInput) \/ Blank(weather'.cityInput))) =>
           /\ weather'.pc = "idle"
           /\ weather'.statusEl = WeatherEnterKeyCity
      /\ (AnalysisSubmit /\ (Blank(analysis'.text) \/ Blank(analysis'.apiKey))) =>
           /\ analysis'.requests = analysis.requests
           /\ analysis'.submits = analysis.submits
           /\ analysis'.messageEl \in {AnalysisEnterText, AnalysisEnterKey}
    ]_vars

\* A weather submission with a city of white space alone was refused.
C3_Witness ==
  /\ lab = "weather"
  /\ weather.cityInput = <<" ">>
  /\ weather.apiKeyInput # <<>>
  /\ weather.statusEl = WeatherEnterKeyCity
  /\ weather.pc = "idle"

\* A year written as four decimal digits, and the number it names.
IsFourDigitYear(text) ==
  /\ Len(text) = 4
  /\ \A i \in 1..4 : text[i] \in {"0", "1", "2", "3", "4", "5", "6", "7", "8", "9"}
  /\ text[1] # "0"

DecimalDigit(c) ==
  CASE c = "0" -> 0 [] c = "1" -> 1 [] c = "2" -> 2 [] c = "3" -> 3 [] c = "4" -> 4
    [] c = "5" -> 5 [] c = "6" -> 6 [] c = "7" -> 7 [] c = "8" -> 8 [] c = "9" -> 9

FourDigitYear(text) ==
  1000 * DecimalDigit(text[1]) + 100 * DecimalDigit(text[2]) +
  10 * DecimalDigit(text[3]) + DecimalDigit(text[4])

\* C4: on the NASA form a submission with a query and a year outside
\* 1920..2100 sends nothing and asks for a correct year; with a year inside
\* the range it sends a request whose year_start and year_end are the year
\* as typed; with an empty year field the request has neither parameter.
\* Whatever the year field holds, a request that carries a year carries the
\* same four-digit year of the range in both parameters.
C4_YearFilter ==
  [][ (NasaSubmit /\ ~Blank(nasa'.searchInput)) =>
        LET year == nasa'.yearInput
            sent == Len(nasa'.requests) = Len(nasa.requests) + 1
            url == nasa'.requests[Len(nasa'.requests)].url
        IN  /\ Blank(year) =>
                 sent /\ "year_start" \notin DOMAIN url /\ "year_end" \notin DOMAIN url
            /\ (IsFourDigitYear(year) /\ FourDigitYear(year) \notin YearMin..YearMax) =>
                 /\ nasa'.requests = nasa.requests
                 /\ nasa'.statusElement = NasaBadYear
            /\ (IsFourDigitYear(year) /\ FourDigitYear(year) \in YearMin..YearMax) =>
                 /\ sent
                 /\ {"year_start", "year_end"} \subseteq DOMAIN url
                 /\ url.year_start = year /\ url.year_end = year
            /\ (sent /\ "year_start" \in DOMAIN url) =>
                 /\ "year_end" \in DOMAIN url /\ url.year_end = url.year_start
                 /\ IsFourDigitYear(url.year_start)
                 /\ FourDigitYear(url.year_start) \in YearMin..YearMax
    ]_vars

\* A request was sent for the year 2020 and carries it in both parameters.
C4_Witness ==
  /\ lab = "nasa"
  /\ nasa.yearInput = <<"2", "0", "2", "0">>
  /\ Len(nasa.requests) > 0
  /\ nasa.requests[1].url.year_start = <<"2", "0", "2", "0">>
  /\ nasa.requests[1].url.year_end = <<"2", "0", "2", "0">>

\* C5: when a request cancelled by a newer submission ends, neither the
\* status text nor the results container changes.
C5_CancelledRequestIsSilent ==
  [][ (/\ lab = "nasa"
       /\ \E id \in 1..Len(nasa.requests) :
            /\ nasa.requests[id].aborted
            /\ nasa.requests[id].st # "settled"
            /\ nasa'.requests[id].st = "settled") =>
        /\ nasa'.statusElement = nasa.statusElement
        /\ nasa'.resultsContainer = nasa.resultsContainer
    ]_vars

\* A cancelled request has ended while its successor is still loading.
C5_Witness ==
  /\ lab = "nasa"
  /\ nasa.statusElement = NasaLoading
  /\ \E id \in 1..Len(nasa.requests) :
       nasa.requests[id].aborted /\ nasa.requests[id].st = "settled"

\* C6: in every lab a response that is not ok ends the submission in an
\* error: the status text becomes an error message, nothing is rendered
\* from the response, and the listener has ended.
C6_HttpErrorIsAnError ==
  [][ /\ (lab = "nasa" /\ \E id \in 1..Len(nasa.requests) :
                            NasaFetchSettlesWith(id, "http")) =>
           /\ nasa'.statusElement = NasaFailed
           /\ nasa'.resultsContainer = nasa.resultsContainer
      /\ (GeoGeocodeFetchSettlesWith("http") \/ GeoPlacesFetchSettlesWith("http")) =>
           /\ geo'.statusEl.tone = "error"
           /\ geo'.placesList = geo.placesList
           /\ geo'.markersLayer = geo.markersLayer
           /\ geo'.pc = "idle"
      /\ WeatherFetchSettlesWith("http") =>
           /\ weather'.statusEl.color = "error"
           /\ weather'.lastForecast = weather.lastForecast
           /\ weather'.chartInstance = weather.chartInstance
           /\ weather'.localStorage = weather.localStorage
           /\ weather'.pc = "idle"
      /\ \A r \in Requests :
           (/\ lab \in AnalysisLabs
            /\ ~analysis.requests[r].ok
            /\ \E body \in AnalysisBodies : AnalysisJsonSettlesWith(r, body)) =>
             /\ analysis'.requests[r].st = "rejected"
             /\ analysis'.sentimentCells = analysis.sentimentCells
             /\ analysis'.keywordsTable = analysis.keywordsTable
             /\ analysis'.statsCells = analysis.statsCells
             /\ analysis'.sentimentChart = analysis.sentimentChart
             /\ analysis'.keywordsChart = analysis.keywordsChart
             /\ analysis.awaiting => (analysis'.messageEl.isError /\ ~analysis'.awaiting)
    ]_vars

\* A text analysis has ended in the error of a response that was not ok.
C6_Witness ==
  /\ lab \in AnalysisLabs
  /\ analysis.messageEl = AnalysisThrown("http")
  /\ ~analysis.awaiting

\* C7: in every lab a body that is no valid JSON ends the submission in an
\* error message; nothing of the response is rendered, and the listener
\* ends in its catch (and finally), not in an unhandled rejection.
C7_DecodeErrorIsAnError ==
  [][ /\ (lab = "nasa" /\ \E id \in 1..Len(nasa.requests), payload \in NasaPayloads :
                            ~payload.valid /\ NasaJsonSettlesWith(id, payload)) =>
           /\ nasa'.statusElement = NasaFailed
           /\ nasa'.resultsContainer = nasa.resultsContainer
      /\ (\E payload \in GeocodePayloads :
             ~payload.valid /\ GeoGeocodeJsonSettlesWith(payload)) =>
           /\ geo'.statusEl.tone = "error" /\ geo'.pc = "idle" /\ ~geo'.submitDisabled
           /\ geo'.placesList = geo.placesList /\ geo'.markersLayer = geo.markersLayer
      /\ (\E payload \in PlacesPayloads :
             ~payload.valid /\ GeoPlacesJsonSettlesWith(payload)) =>
           /\ geo'.statusEl.tone = "error" /\ geo'.pc = "idle" /\ ~geo'.submitDisabled
           /\ geo'.placesList = geo.placesList /\ geo'.markersLayer = geo.markersLayer
      /\ (\E payload \in ForecastPayloads :
             ~payload.valid /\ WeatherJsonSettlesWith(payload)) =>
           /\ weather'.statusEl.color = "error"
           /\ weather'.pc = "idle" /\ ~weather'.loadBtnDisabled
           /\ weather'.lastForecast = weather.lastForecast
           /\ weather'.chartInstance = weather.chartInstance
           /\ weather'.localStorage = weather.localStorage
      /\ \A r \in Requests :
           (/\ lab \in AnalysisLabs
            /\ \E body \in AnalysisBodies :
                 ~body.valid /\ AnalysisJsonSettlesWith(r, body)) =>
             /\ analysis'.requests[r].st = "rejected"
             /\ analysis'.sentimentCells = analysis.sentimentCells
             /\ analysis'.keywordsTable = analysis.keywordsTable
             /\ analysis'.statsCells = analysis.statsCells
             /\ analysis'.sentimentChart = analysis.sentimentChart
             /\ analysis'.keywordsChart = analysis.keywordsChart
             /\ analysis.awaiting =>
                  /\ analysis'.messageEl.isError
                  /\ ~analysis'.awaiting /\ ~analysis'.analyzeBtnDisabled
    ]_vars

\* A weather submission has ended in the error of a body that did not decode.
C7_Witness ==
  /\ lab = "weather"
  /\ weather.statusEl = WeatherThrown("decode")
  /\ weather.pc = "idle"

\* The envelope codes the claim takes for errors: present, and not the
\* service's success code.
PresentAndNotSuccess(l, code) == code.present /\ code.value # SuccessCode(l)

\* C8: in the text-analysis labs an ok response whose envelope code is
\* present and is not the success code is reported as an error.
C8_PresentCodeIsAnError ==
  [][ \A r \in Requests, body \in AnalysisBodies :
        (/\ lab \in AnalysisLabs
         /\ body.valid /\ PresentAndNotSuccess(lab, body.code)
         /\ analysis.requests[r].ok /\ analysis.awaiting
         /\ AnalysisJsonSettlesWith(r, body)) =>
          analysis'.messageEl.isError
    ]_vars

\* C8, what the code does: an ok response whose envelope code is present,
\* not empty and not the success code is reported as an error; an ok
\* response whose code is the success code, is empty or is missing gives
\* its data and is not reported as an error.
C8_NonEmptyCodeIsAnError ==
  [][ \A r \in Requests, body \in AnalysisBodies :
        (/\ lab \in AnalysisLabs
         /\ body.valid
         /\ analysis.requests[r].ok /\ analysis.awaiting
         /\ AnalysisJsonSettlesWith(r, body)) =>
          IF PresentAndNotSuccess(lab, body.code) /\ body.code.value # ""
            THEN /\ analysis'.requests[r].st = "rejected"
                 /\ analysis'.messageEl.isError
            ELSE /\ analysis'.requests[r].st = "fulfilled"
                 /\ analysis'.messageEl \in {analysis.messageEl, AnalysisDone}
    ]_vars

\* A Twinword analysis has ended in the error of the service's envelope.
C8_EnvelopeErrorShown ==
  /\ lab = "twinword"
  /\ analysis.messageEl = AnalysisThrown("api")
  /\ ~analysis.awaiting

\* C9: a step that issues a request leaves the loading message in the
\* status text; the status text holds the loading message only while the
\* listener waits; and when the listener of a submission that was not
\* superseded ends, the status text holds a terminal message.  A listener
\* that goes with its document when the page is loaded again does not end.
C9_LoadingThenTerminal ==
  [][ /\ IssuesRequest => Loading'
      /\ Loading' => ListenerPending'
      /\ (ListenerPending /\ ~ListenerPending' /\ ~WeatherLoad) => Terminal'
    ]_vars

\* A weather submission has completed with its count of points.
C9_Witness ==
  /\ lab = "weather"
  /\ weather.pc = "idle"
  /\ weather.statusEl.kind = "points received"

\* C10: whenever no submission is pending the submit control is enabled:
\* every path on which a submission ends, failed or not, enables it again.
C10_FormUsableAfterCompletion ==
  /\ lab = "geo" => (geo.pc = "idle" => ~geo.submitDisabled)
  /\ lab = "weather" =>
       (weather.pc = "idle" => ~weather.loadBtnDisabled /\ ~weather.controlsDisabled)
  /\ lab \in AnalysisLabs => (~analysis.awaiting => ~analysis.analyzeBtnDisabled)

\* A geo search has failed to find the address and the button is enabled.
C10_Witness ==
  /\ lab = "geo"
  /\ geo.statusEl = GeoNoAddress
  /\ geo.pc = "idle"
  /\ ~geo.submitDisabled

\* The functions that normalize a decoded payload.
Normalizers == {"createCard", "fetchPlaces", "chartPoints", "extractKeywords"}

\* C11: normalization is total: whatever optional fields the decoded
\* payload lacks, the normalizer returns and never throws.
C11_NormalizationIsTotal ==
  (call.fn \in Normalizers /\ call.done) => ~call.result.threw

\* The items of a sequence that have the score v, in the sequence's order.
WithScore(items, v) ==
  LET Has(item) == item.score = v IN SelectSeq(items, Has)

\* The items of a payload that have a label, in payload order: the concepts
\* before the entities, or the entries of the keyword map as written.
PayloadOrder(data) ==
  LET concepts == IF data.concept_list.present THEN data.concept_list.value ELSE <<>>
      entities == IF data.entity_list.present THEN data.entity_list.value ELSE <<>>
      pairs == IF data.keyword.present THEN data.keyword.value ELSE <<>>
      items ==
        IF data.lab = "meaningcloud"
          THEN [i \in 1..Len(concepts) |->
                  [label |-> concepts[i].form, source |-> "Concept",
                   score |-> relevanceOf(concepts[i].relevance)]] \o
               [i \in 1..Len(entities) |->
                  [label |-> entities[i].form, source |-> "Entity",
                   score |-> relevanceOf(entities[i].relevance)]]
          ELSE [i \in 1..Len(pairs) |->
                  [label |-> Label(pairs[i].label), source |-> "Twinword",
                   score |-> pairs[i].weight]]
  IN  SelectSeq(items, HasLabel)

\* No item is followed by one of a strictly greater score.
Descending(items) ==
  \A i, j \in 1..Len(items) : i < j => items[i].score >= items[j].score

\* C12 (as stated): extractKeywords returns its items by descending score,
\* and the items of one score are in payload order.
C12_SortedTiesInPayloadOrder ==
  (call.fn = "extractKeywords" /\ call.done) =>
    /\ Descending(call.result.value)
    /\ \A v \in 0..2 :
         WithScore(call.result.value, v) = WithScore(PayloadOrder(call.data), v)

\* The number an index key stands for.
KeyNumber(label) == IF label = "7" THEN 7 ELSE 10

\* The place of a key in a keyword map.
PlaceOfKey(pairs, k) == CHOOSE i \in 1..Len(pairs) : pairs[i].label = k

\* C12 (amended): extractKeywords returns its items by descending score;
\* on the MeaningCloud page the items of one score are in payload order,
\* the concepts before the entities; on the Twinword page the items of one
\* score whose keys are array indices come first, by ascending number, and
\* the others follow in payload order.
C12_SortedTiesInEntriesOrder ==
  (call.fn = "extractKeywords" /\ call.done) =>
    LET r == call.result.value
    IN  /\ Descending(r)
        /\ call.data.lab = "meaningcloud" =>
             \A v \in 0..2 : WithScore(r, v) = WithScore(PayloadOrder(call.data), v)
        /\ call.data.lab = "twinword" =>
             /\ { r[i].label : i \in 1..Len(r) } =
                  { e.label : e \in { PayloadOrder(call.data)[i] :
                                        i \in 1..Len(PayloadOrder(call.data)) } }
             /\ \A i, j \in 1..Len(r) :
                  (i < j /\ r[i].score = r[j].score) =>
                    LET a == r[i].label.value
                        b == r[j].label.value
                    IN  /\ ~(a \notin IndexKeys /\ b \in IndexKeys)
                        /\ (a \in IndexKeys /\ b \in IndexKeys) =>
                             KeyNumber(a) < KeyNumber(b)
                        /\ (a \notin IndexKeys /\ b \notin IndexKeys) =>
                             PlaceOfKey(call.data.keyword.value, a) <
                               PlaceOfKey(call.data.keyword.value, b)

\* An entity of the greatest relevance was moved before two concepts of one
\* relevance, which kept their order.
C12_Witness ==
  /\ call.fn = "extractKeywords" /\ call.done
  /\ Len(call.result.value) = 3
  /\ call.result.value[1].source = "Entity"
  /\ call.result.value[2].score = call.result.value[3].score
  /\ call.result.value[2].label # call.result.value[3].label
  /\ call.result.value[2].source = "Concept"

\* A coordinate rounded to the step (ten tenths).
Rounded(c) == (c + 5) \div 10

\* C13: fetchPlaces deduplicates by name and rounded coordinates, keeping
\* the first occurrence: no two places of its result have the same name and
\* coordinates that round to the same values, and the place kept for a key
\* is of the first element of the payload that has the key.
C13_DedupeByRoundedKey ==
  (call.fn = "fetchPlaces" /\ call.done /\ ~call.result.threw) =>
    LET places == call.result.value
        elements == call.payload.elements
        Key(p) == <<p.name, Rounded(p.lat), Rounded(p.lon)>>
    IN  /\ \A i, j \in 1..Len(places) : i # j => Key(places[i]) # Key(places[j])
        /\ \A i \in 1..Len(places) :
             \E k \in 1..Len(elements) :
               /\ HasLatLng(elements[k])
               /\ Key(PlaceOf(elements[k])) = Key(places[i])
               /\ places[i] = PlaceOf(elements[k])
               /\ \A m \in 1..(k - 1) :
                    HasLatLng(elements[m]) =>
                      Key(PlaceOf(elements[m])) # Key(places[i])

\* C14: truncate keeps a text within its limit: the result of a text that
\* is not empty is at most limit characters long, a text not longer than
\* the limit is returned unchanged, and an empty or missing text gives the
\* placeholder description.
C14_TruncateWithinLimit ==
  (call.fn = "truncate" /\ call.done) =>
    LET given == call.text.present /\ call.text.value # <<>>
    IN  /\ given => Len(call.result) <= call.limit
        /\ (given /\ Len(call.text.value) <= call.limit) =>
             call.result = call.text.value
        /\ ~given => call.result = DescriptionPlaceholder

\* The canvases of the page with the variables that hold their charts.
Canvases ==
  CASE lab = "weather" -> {weather.canvas}
    [] lab \in AnalysisLabs -> {analysis.sentimentCanvas, analysis.keywordsCanvas}
    [] OTHER -> {}

\* C15: every chart canvas has at most one live chart instance, a chart
\* variable that is not null refers to a live instance, and no destroyed
\* instance is ever updated or destroyed again.
C15_OneLiveChartPerCanvas ==
  \A c \in Canvases :
    /\ c.live <= 1
    /\ c.ref # "destroyed"
    /\ (c.ref = "live") = (c.live = 1)
    /\ ~c.misused

\* A second analysis has replaced the charts of the first.
C15_Witness ==
  /\ lab \in AnalysisLabs
  /\ analysis.sentimentChart = 2 /\ analysis.keywordsChart = 2
  /\ analysis.sentimentCanvas.live = 1 /\ analysis.keywordsCanvas.live = 1

\* The requests the NASA page has issued.
NasaIssued == IF lab = "nasa" THEN DOMAIN nasa.requests ELSE {}

\* A step in which the NASA page renders the items of a payload.
NasaRenders(id, payload) ==
  NasaJsonSettlesWith(id, payload) /\ payload.valid /\ payload.items > 0

\* A step in which the geo page renders the places of a payload.
GeoRenders(payload) ==
  GeoPlacesJsonSettlesWith(payload) /\ payload.valid /\ payload.hasElements

\* A step in which updateChart runs to its end.
WeatherRenders ==
  /\ lab = "weather"
  /\ \/ \E payload \in ForecastPayloads :
          WeatherJsonSettlesWith(payload) /\ payload.valid /\ payload.hasList
     \/ /\ Len(weather'.lastForecast) > 0
        /\ WeatherQuickUpdateTo(weather'.metricSelect, weather'.startInput,
                                weather'.endInput)
  /\ ~updateChartThrows(weather')

\* A step in which an analysis page renders its three panels.
AnalysisRenders ==
  /\ \E r \in Requests, body \in AnalysisBodies : AnalysisJsonSettlesWith(r, body)
  /\ analysis.awaiting
  /\ analysis'.messageEl = AnalysisDone

\* The three renders of an analysis page, as the listener calls them.
analysisRenders(s) ==
  renderStats(renderKeywords(renderSentiment(s, s.submits), s.submits,
                             s.requests["topics"].keywords), s.submits)

\* The page without the record of in-place updates of its chart.
Unpatched(s) == [s EXCEPT !.canvas.patched = FALSE]

\* C16 as the specification states it: after every render, the same render
\* again leaves its target as it is, and no chart instance was given new
\* data in place.
C16_RenderTwiceIsOnceNothingPatched ==
  [][ /\ \A id \in NasaIssued, payload \in NasaPayloads :
           NasaRenders(id, payload) =>
             renderItems(nasa'.resultsContainer, id, payload.items)
               = nasa'.resultsContainer
      /\ WeatherRenders =>
           /\ updateChart(weather') = weather'
           /\ ~weather'.canvas.patched
    ]_vars

\* C16, amended: the renders of the geo and analysis pages dispose what
\* was bound to their targets and build it anew, so the same render again
\* changes nothing; the weather page's updateChart, again, changes nothing
\* but constructs a chart only when the page has none and otherwise gives
\* the one it has its new dataset; the NASA page's renderItems appends to
\* a container that the submission has emptied.
C16_RenderTwiceIsOnce ==
  [][ /\ \A id \in NasaIssued, payload \in NasaPayloads :
           NasaRenders(id, payload) =>
             /\ nasa.resultsContainer = <<>>
             /\ nasa'.resultsContainer = renderItems(<<>>, id, payload.items)
      /\ \A payload \in PlacesPayloads :
           GeoRenders(payload) =>
             /\ geo'.placesList = renderPlaces(placesOf(payload))
             /\ geo'.markersLayer = updateMarkers(geo'.center, placesOf(payload))
      /\ WeatherRenders =>
           /\ Unpatched(updateChart(weather')) = Unpatched(weather')
           /\ weather'.canvas.patched =>
                weather.canvas.patched \/ weather.canvas.ref = "live"
      /\ AnalysisRenders =>
           /\ analysisRenders(analysis') = analysis'
           /\ analysis'.sentimentCanvas.live = 1
           /\ analysis'.keywordsCanvas.live <= 1
    ]_vars

\* The weather page has given its chart a new dataset, and the chart is
\* the only one of its canvas.
C16_Witness ==
  /\ lab = "weather"
  /\ weather.canvas.patched
  /\ weather.canvas.live = 1
  /\ weather.chartInstance.live

\* What a page load finds stored was written by a submission.
Persisted == lab = "weather" /\ weather.localStorage.ow_apiKey # <<>>

\* C17: what persistPreferences writes is the key and the city of the
\* submission and the metric selected, and a page load that finds them
\* stored puts exactly these three values into the key field, the city
\* field and the metric selector, and leaves them stored.
C17_PreferencesRoundTrip ==
  [][ /\ \A payload \in ForecastPayloads :
           (WeatherJsonSettlesWith(payload) /\ payload.valid /\ payload.hasList) =>
             weather'.localStorage =
               [ow_apiKey |-> trim(weather.apiKeyInput),
                ow_city |-> trim(weather.cityInput),
                ow_metric |-> weather.metricSelect]
      /\ (WeatherLoad /\ Persisted) =>
           /\ weather'.apiKeyInput = weather.localStorage.ow_apiKey
           /\ weather'.cityInput = weather.localStorage.ow_city
           /\ weather'.metricSelect = weather.localStorage.ow_metric
           /\ weather'.localStorage = weather.localStorage
    ]_vars

\* A page just loaded over the preferences of a submission made with the
\* metric changed: the fields hold what was stored.
C17_Witness ==
  /\ lab = "weather"
  /\ weather.statusEl = WeatherInitialStatus
  /\ weather.lastForecast = <<>>
  /\ weather.localStorage.ow_metric = "feels_like"
  /\ weather.metricSelect = "feels_like"
  /\ weather.apiKeyInput = <<"k">>
  /\ weather.cityInput = <<"B">>

\* The step writes to the store of the weather page.
WritesPreferences ==
  lab = "weather" /\ weather'.localStorage # weather.localStorage

\* C18 as the specification states it: the stored preferences are written
\* only by a submission that succeeds, one that ends with the count of the
\* points it has drawn.
C18_WrittenOnlyOnSuccess ==
  [][ WritesPreferences => weather'.statusEl.kind = "points received" ]_vars

\* C18, amended: the stored preferences are written only in the step in
\* which the body of a submission's response decodes to an object with a
\* list array, whatever updateChart then makes of the list; a submission
\* that fails validation, a response that is not 2xx, a body that does not
\* decode or has no list array, a change of the metric or of the period
\* and a page load leave them as they are.
C18_WrittenOnlyWithForecast ==
  [][ /\ WritesPreferences =>
           /\ \E payload \in ForecastPayloads :
                WeatherJsonSettlesWith(payload) /\ payload.valid /\ payload.hasList
           /\ \A payload \in ForecastPayloads :
                WeatherJsonSettlesWith(payload) => (payload.valid /\ payload.hasList)
           /\ ~(WeatherSubmit \/ WeatherFetchSettles \/ WeatherQuickUpdate \/ WeatherLoad)
    ]_vars

\* A submission for another city has failed on the status of its response
\* and the store holds the city of the submission before it.
C18_Witness ==
  /\ lab = "weather"
  /\ weather.statusEl = WeatherHttpError
  /\ weather.request.q = <<"B">>
  /\ weather.localStorage.ow_city = <<"A">>

\* What the panels of an analysis page show.
Panels ==
  <<analysis.sentimentCells, analysis.sentimentChart, analysis.sentimentCanvas,
    analysis.keywordsTable, analysis.keywordsChart, analysis.keywordsCanvas,
    analysis.statsCells>>

\* The three panels show the results of the last submission.
AllRendered ==
  /\ analysis.sentimentCells = analysis.submits
  /\ analysis.sentimentChart = analysis.submits
  /\ analysis.keywordsTable.of = analysis.submits
  /\ analysis.statsCells = analysis.submits

\* The step in which a request of the submission the listener awaits fails.
AwaitedRequestFails ==
  /\ analysis.awaiting
  /\ \E r \in Requests :
       analysis.requests[r].st \in {"fetch", "body"} /\ analysis'.requests[r].st = "rejected"

\* C19: on an analysis page only the reset and the step in which both
\* requests of a submission have succeeded change a panel, and that step
\* renders all three and shows the success message; the step in which a
\* request fails changes no panel and shows an error; and the success
\* message is never shown without the three panels of the submission.
C19_AllOrNothing ==
  [][ /\ (lab \in AnalysisLabs /\ Panels' # Panels /\ ~AnalysisReset) =>
           /\ AnalysisRenders
           /\ \A r \in Requests : analysis'.requests[r].st = "fulfilled"
           /\ AllRendered'
           /\ analysis'.messageEl = AnalysisDone
      /\ (lab \in AnalysisLabs /\ AwaitedRequestFails) =>
           /\ Panels' = Panels
           /\ analysis'.messageEl.isError
           /\ ~analysis'.awaiting
      /\ (lab \in AnalysisLabs /\ analysis'.messageEl = AnalysisDone) => AllRendered'
    ]_vars

\* The second submission has lost its topics request after its sentiment
\* request succeeded, and the panels still show the first.
C19_Witness ==
  /\ lab \in AnalysisLabs
  /\ analysis.submits = 2
  /\ analysis.requests["sentiment"].st = "fulfilled"
  /\ analysis.requests["topics"].st = "rejected"
  /\ analysis.messageEl.isError
  /\ analysis.sentimentCells = 1 /\ analysis.statsCells = 1
  /\ analysis.keywordsTable.of = 1

\* The step in which the geocoding of a submission ends without a match:
\* its request fails, its response is not ok, its body does not decode or
\* decodes to an empty list.
GeocodingFails ==
  \/ \E outcome \in FetchOutcomes :
       GeoGeocodeFetchSettlesWith(outcome) /\ ~responseOk(outcome)
  \/ \E payload \in GeocodePayloads :
       GeoGeocodeJsonSettlesWith(payload) /\ (~payload.valid \/ payload.matches = <<>>)

\* The step in which the geocoding of a submission ends with a match.
GeocodingMatches ==
  \E payload \in GeocodePayloads :
    GeoGeocodeJsonSettlesWith(payload) /\ payload.valid /\ payload.matches # <<>>

\* The listener waits for the Overpass request.
PlacesPending == geo.pc \in {"places-fetch", "places-body"}

\* C20: on the geo page a request is sent only by a submission (the
\* geocoding request) and by the step in which its geocoding ends with a
\* match (the Overpass request, for the matched place); the step in which
\* geocoding fails or finds no match sends nothing, ends the listener and
\* leaves the places list and the marker layer as they were.
C20_PlacesOnlyAfterGeocodeMatch ==
  [][ /\ (lab = "geo" /\ PlacesPending' /\ ~PlacesPending) =>
           /\ GeocodingMatches
           /\ geo'.sent = geo.sent + 1
           /\ geo'.center \in {payload.matches[1] : payload \in
                                 {q \in GeocodePayloads : q.matches # <<>>}}
      /\ (lab = "geo" /\ geo'.sent # geo.sent) => (GeoSubmit \/ GeocodingMatches)
      /\ GeocodingFails =>
           /\ geo'.sent = geo.sent
           /\ geo'.pc = "idle"
           /\ geo'.placesList = geo.placesList
           /\ geo'.markersLayer = geo.markersLayer
    ]_vars

\* The geocoding of a second search has found no match: one request more
\* than after the first search, whose places are still listed and marked.
C20_Witness ==
  /\ lab = "geo"
  /\ geo.submits = 2
  /\ geo.sent = 3
  /\ geo.statusEl = GeoNoAddress
  /\ geo.placesList # <<>>
  /\ Len(geo.markersLayer) > 1

\* The places the marker layer marks: its markers but the first, which
\* marks the searched location.
Marked == IF geo.markersLayer = <<>> THEN <<>> ELSE Tail(geo.markersLayer)

\* The list and the layer show the same places: nothing on a page that
\* has not searched yet, and after a search the places that are marked,
\* or the item that says that nothing was found when none is.
ListMatchesMarkers ==
  IF geo.markersLayer = <<>> THEN geo.placesList = <<>>
  ELSE /\ geo.markersLayer[1].name = "searched location"
       /\ geo.placesList = renderPlaces(Marked)

InPeriod(s) ==
  SelectSeq(s.lastForecast,
            LAMBDA entry : s.startInput <= entry.dt /\ entry.dt <= s.endInput)

\* The period of the page is one updateChart rejects.
BadPeriod(s) ==
  s.startInput = NoDate \/ s.endInput = NoDate \/ s.startInput >= s.endInput

\* C22: when updateChart has run to its end, a period with a missing date
\* or with start >= end has left the chart as it was and the status text
\* says so; a period without an entry of the cached forecast has left no
\* chart and an error in the status text; otherwise the chart holds one
\* point per cached entry of the closed period, in arrival order, with
\* the value of the selected metric, and the status text their number.
C22_ChartsEntriesOfPeriod ==
  [][ (lab = "weather" /\ WeatherRenders) =>
        LET entries == InPeriod(weather')
        IN  IF BadPeriod(weather')
              THEN /\ weather'.statusEl = WeatherBadPeriod
                   /\ weather'.chartInstance = weather.chartInstance
                   /\ weather'.canvas = weather.canvas
            ELSE IF entries = <<>>
              THEN /\ weather'.statusEl = WeatherNoData
                   /\ weather'.statusEl.color = "error"
                   /\ weather'.chartInstance = NoChart
                   /\ weather'.canvas.live = 0 /\ weather'.canvas.ref = "null"
            ELSE /\ weather'.statusEl = WeatherPoints(Len(entries))
                 /\ weather'.chartInstance.live /\ weather'.canvas.live = 1
                 /\ weather'.chartInstance.dataset.data =
                      [i \in 1..Len(entries) |->
                         [x |-> entries[i].dt,
                          y |-> IF weather'.metricSelect = "temp"
                                  THEN entries[i].temp
                                  ELSE entries[i].feels_like]]
    ]_vars

\* The chart holds the two entries of a forecast that arrived out of
\* order, the first at the end of the period and the second at its start.
C22_Witness ==
  /\ lab = "weather"
  /\ weather.startInput = 2 /\ weather.endInput = 6
  /\ weather.chartInstance.live
  /\ weather.statusEl = WeatherPoints(2)
  /\ weather.chartInstance.dataset.data[1].x = 6
  /\ weather.chartInstance.dataset.data[2].x = 2

\* The step is a quick update: the change of the metric or of a date.
QuickUpdates ==
  /\ lab = "weather"
  /\ WeatherQuickUpdateTo(weather'.metricSelect, weather'.startInput, weather'.endInput)

\* The step replaces the forecast a page has cached (a page load, which
\* starts a new document, is no such step).
ReplacesForecast ==
  lab = "weather" /\ weather'.lastForecast # weather.lastForecast /\ ~WeatherLoad

\* The timestamps of the cached forecast.
CachedTimes(s) == {s.lastForecast[i].dt : i \in 1..Len(s.lastForecast)}

\* C23 as the specification states it, for the cache: only a submission
\* that succeeds, one that ends with the count of the points it has drawn,
\* replaces the cached forecast.
C23_CacheReplacedOnlyOnSuccess ==
  [][ ReplacesForecast => weather'.statusEl.kind = "points received" ]_vars

\* C23, amended: a quick update sends nothing and leaves the cached
\* forecast and the store as they are; with an empty cache it leaves the
\* status text and the chart as they are too, and otherwise every point
\* of a chart it has drawn is an entry of the cache.  The cache is replaced only in the
\* step in which the body of a submission's response decodes to an object
\* with a list array, by that list, whatever updateChart then makes of it;
\* a submission that fails validation, a response that is not 2xx and a
\* body that does not decode or has no list array leave it as it is.
C23_QuickUpdateUsesCache ==
  [][ /\ QuickUpdates =>
           /\ weather'.pc = weather.pc
           /\ weather'.request = weather.request
           /\ weather'.lastForecast = weather.lastForecast
           /\ weather'.localStorage = weather.localStorage
           /\ weather.lastForecast = <<>> =>
                /\ weather'.statusEl = weather.statusEl
                /\ weather'.chartInstance = weather.chartInstance
                /\ weather'.canvas = weather.canvas
           /\ (weather'.chartInstance.live /\
               weather'.chartInstance # weather.chartInstance) =>
                \A i \in DOMAIN weather'.chartInstance.dataset.data :
                  weather'.chartInstance.dataset.data[i].x \in CachedTimes(weather)
      /\ ReplacesForecast =>
           \E payload \in ForecastPayloads :
             /\ WeatherJsonSettlesWith(payload)
             /\ payload.valid /\ payload.hasList
             /\ weather'.lastForecast = payload.list
    ]_vars

\* After a forecast was loaded for one city a submission for another has
\* failed on the status of its response, and a quick update has charted
\* the cached forecast again.
C23_Witness ==
  /\ lab = "weather"
  /\ weather.localStorage.ow_city = <<"A">>
  /\ weather.request.q = <<"B">>
  /\ weather.lastForecast # <<>>
  /\ weather.statusEl = WeatherPoints(1)
  /\ weather.chartInstance.live

\* The step draws the chart: updateChart runs to its end on a period
\* that holds entries of the cached forecast.
DrawsChart ==
  WeatherRenders /\ ~BadPeriod(weather') /\ InPeriod(weather') # <<>>

\* C24: a chart that the weather page draws is labelled with the city for
\* which the forecast it charts was requested.
C24_LabelIsCityOfForecast ==
  [][ DrawsChart => weather'.chartInstance.dataset.city = weather'.forecastCity ]_vars

\* The panels of an analysis page are as the reset listener leaves them.
PanelsCleared ==
  /\ analysis.sentimentCells = 0
  /\ analysis.keywordsTable = [rows |-> 0, of |-> 0]
  /\ analysis.statsCells = 0
  /\ analysis.sentimentChart = 0 /\ analysis.keywordsChart = 0
  /\ analysis.sentimentCanvas.ref = "null" /\ analysis.keywordsCanvas.ref = "null"

\* C25: on an analysis page whose form was reset and on which no
\* submission was made since, the panels are cleared: the response to an
\* analysis that was in flight at the reset is not rendered.
C25_ClearedAfterReset ==
  (lab \in AnalysisLabs /\ analysis.resetSince) => PanelsCleared

=============================================================================
